---- MODULE Spec2Model ----
(***************************************************************************)
(* Cortex-M7 core of the Game & Watch emulator: register file              *)
(* (cpu/registers.py), exception manager (cpu/exceptions.py), the step     *)
(* function and the instruction handlers of cpu/cortex_m7.py, the address  *)
(* routing of memory/bus.py and the step loop of main.py.                  *)
(*                                                                         *)
(* A 32-bit word is the pair <<hi, lo>> of its two 16-bit halves, so that  *)
(* every value of the program (0xFFFFFFF9, 0xE000E100, ...) is exact.      *)
(***************************************************************************)
EXTENDS Integers, Sequences, FiniteSets, TLC

VARIABLES
    regs,              \* Registers._regs: R0..R15 (index 15 is the PC)
    msp, psp,          \* Registers._msp, Registers._psp
    psr,               \* Registers.psr._value (xPSR)
    primask, faultmask, basepri, control,
    exceptions,        \* ExceptionManager.exceptions: number -> ExceptionState
    active_stack,      \* ExceptionManager._active_stack
    ccr, shcsr,        \* ExceptionManager.ccr, .shcsr
    mem,               \* RAM words written so far (word address -> word), and
                       \* SystemBus._stub_reads (address -> last value written)
    it_state,          \* CortexM7._it_state
    halted,            \* CortexM7.halted
    exclusive_active,  \* CortexM7._exclusive_active
    exclusive_addr,    \* CortexM7._exclusive_addr
    last_pc,           \* CortexM7._last_pc
    image,             \* which firmware image the flash holds
    phase,             \* position inside step(): "boundary" or "fetch"
    taken,             \* exception entered by the pending check of this step (0: none)
    nchecks,           \* calls of get_pending_exception made by this step
    pre,               \* register snapshot taken just before the entry of this step
    consecutive_errors, \* main.py: steps in a row that raised a host exception
    running,           \* main.py: the step loop has not stopped
    cycles,            \* main.py: the cycles the last step() accounted (0: no step yet)
    gw_program,        \* gwemu: which test program the flash holds
    gw_regs,           \* CortexMEmulator.regs
    gw_xpsr,           \* CortexMEmulator.xpsr
    gw_halted,         \* CortexMEmulator.halted
    gw_mem,            \* gwemu SRAM: the bytes written so far (address -> byte)
    gw_raised          \* the exception that left CortexMEmulator.step ("": none)

vars == <<regs, msp, psp, psr, primask, faultmask, basepri, control,
          exceptions, active_stack, ccr, shcsr, mem, it_state, halted,
          exclusive_active, exclusive_addr, last_pc, image, phase, taken,
          nchecks, pre, consecutive_errors, running, cycles,
          gw_program, gw_regs, gw_xpsr, gw_halted, gw_mem, gw_raised>>

gwVars == <<gw_program, gw_regs, gw_xpsr, gw_halted, gw_mem, gw_raised>>
coreVars == <<regs, msp, psp, psr, primask, faultmask, basepri, control,
              exceptions, active_stack, ccr, shcsr, mem, it_state, halted,
              exclusive_active, exclusive_addr, last_pc, image, phase, taken,
              nchecks, pre, consecutive_errors, running, cycles>>

regVars == <<regs, msp, psp, psr, primask, faultmask, basepri, control>>
excVars == <<exceptions, active_stack, ccr, shcsr>>
cpuVars == <<it_state, halted, exclusive_active, exclusive_addr, last_pc>>

----------------------------------------------------------------------------
(* 32-bit words as pairs of halfwords *)

H == 2 ^ 16

W(hi, lo) == <<hi, lo>>

Zero == W(0, 0)

\* bit n (0..15) of a halfword
BitAt(x, n) == (x \div (2 ^ n)) % 2

\* bit n (0..31) of a word
WBit(w, n) == IF n < 16 THEN BitAt(w[2], n) ELSE BitAt(w[1], n - 16)

\* the word with bit n forced to b
WSetBit(w, n, b) ==
    IF n < 16
    THEN W(w[1], w[2] - BitAt(w[2], n) * (2 ^ n) + b * (2 ^ n))
    ELSE W(w[1] - BitAt(w[1], n - 16) * (2 ^ (n - 16)) + b * (2 ^ (n - 16)), w[2])

\* (w + k) mod 2^32 for an integer k with |k| < 65536
WAdd(w, k) ==
    LET s == w[2] + k IN
    IF s >= H THEN W((w[1] + 1) % H, s - H)
    ELSE IF s < 0 THEN W((w[1] + H - 1) % H, s + H)
    ELSE W(w[1], s)

\* w & 0xFFFFFFFE and w & 0xFFFFFFFC
Even(w) == W(w[1], w[2] - (w[2] % 2))
Align4(w) == W(w[1], w[2] - (w[2] % 4))

\* byte i (0..3) of a word
WByte(w, i) ==
    IF i = 0 THEN w[2] % 256
    ELSE IF i = 1 THEN w[2] \div 256
    ELSE IF i = 2 THEN w[1] % 256
    ELSE w[1] \div 256

\* the word with byte i (0..3) replaced by b
WSetByte(w, i, b) ==
    IF i = 0 THEN W(w[1], (w[2] \div 256) * 256 + b)
    ELSE IF i = 1 THEN W(w[1], b * 256 + (w[2] % 256))
    ELSE IF i = 2 THEN W((w[1] \div 256) * 256 + b, w[2])
    ELSE W(b * 256 + (w[1] % 256), w[2])

\* small integers as words
WInt(n) == W(0, n)

\* smallest element of a non-empty set of integers
SetMin(S) == CHOOSE x \in S : \A y \in S : x <= y

----------------------------------------------------------------------------
(* The exceptions of the model and the ROM image *)

\* the exception numbers whose state is modelled:
\* NMI, HardFault, UsageFault, SVCall, IRQ0, IRQ1
ExcNums == {1, 2, 3, 6, 11, 16, 17}
ExcOrder == <<1, 2, 3, 6, 11, 16, 17>>

\* vector table of the firmware images: initial MSP, reset vector, handlers
MspInit == W(8192, 4096)         \* 0x20001000, in DTCM
ThreadCode == W(2048, 512)       \* 0x08000200
HandlerAddr(n) == W(2048, 256 + 16 * (n % 16))

\* data words the firmware images load with LDR (literal)
RamCell == W(8192, 256)          \* 0x20000100
PspInit == W(8192, 8196)         \* 0x20002004
NvicBase == W(57344, 57600)      \* 0xE000E100 (NVIC_ISER0)
ScbBase == W(57344, 60672)       \* 0xE000ED00
OddTarget == W(2048, 545)        \* 0x08000221
EvenTarget == W(2048, 560)       \* 0x08000230
IprBase == W(57344, 58368)       \* 0xE000E400 (NVIC_IPR0)
LitPool == 3 * 256
ItcmCell == W(0, 256)           \* 0x00000100, in ITCM
RamOdd == W(8192, 257)           \* 0x20000101
FlashCell == W(2048, 1024)       \* 0x08000400, behind the image
ExtFlashCell == W(36864, 0)      \* 0x90000000
StubCell == W(16384, 17408)      \* 0x40004400 (USART2, no device registered)
UnknownCell == W(24576, 0)       \* 0x60000000
Literals ==
    <<RamCell, PspInit, ScbBase, NvicBase, W(32768, 0), W(4, 0), W(0, 16512),
      OddTarget, EvenTarget, IprBase, ItcmCell, RamOdd, FlashCell, ExtFlashCell,
      StubCell, UnknownCell, W(258, 16512), W(65535, 65535)>>

\* FlashController read of the word at offset `off` of bank 1
FlashWord(off) ==
    IF off = 0 THEN MspInit
    ELSE IF off = 4 THEN WAdd(ThreadCode, 1)
    ELSE IF off % 4 = 0 /\ (off \div 4) \in ExcNums
         THEN WAdd(HandlerAddr(off \div 4), 1)
    ELSE IF off % 4 = 0 /\ off >= LitPool /\ off < LitPool + 4 * Len(Literals)
         THEN Literals[(off - LitPool) \div 4 + 1]
    ELSE Zero

----------------------------------------------------------------------------
(* Register file: cpu/registers.py *)

T_BIT == 24
IPSR_MASK == 511

Ipsr(p) == p[2] % (IPSR_MASK + 1)

SetIpsr(p, n) == W(p[1], p[2] - (p[2] % (IPSR_MASK + 1)) + (n % (IPSR_MASK + 1)))

Spsel(s) == (s.control \div 2) % 2 = 1

\* sp getter that follows CONTROL.SPSEL in Handler mode too
SpBySpsel(s) == IF Spsel(s) THEN s.psp ELSE s.msp

\* Registers.sp (getter)
Sp(s) == IF Spsel(s) /\ Ipsr(s.psr) = 0 THEN s.psp ELSE s.msp

\* Registers.sp (setter)
SetSp(s, v) ==
    IF Spsel(s) /\ Ipsr(s.psr) = 0 THEN [s EXCEPT !.psp = v] ELSE [s EXCEPT !.msp = v]

\* Registers.__getitem__
GetReg(s, i) == IF i = 13 THEN Sp(s) ELSE s.regs[i]

\* Registers.__setitem__
SetReg(s, i, v) ==
    IF i = 13 THEN SetSp(s, v)
    ELSE IF i = 15
         THEN [s EXCEPT !.psr = WSetBit(@, T_BIT, v[2] % 2), !.regs[15] = Even(v)]
    ELSE [s EXCEPT !.regs[i] = v]

\* Registers.pc (setter)
SetPc(s, v) == [s EXCEPT !.regs[15] = Even(v)]

\* Registers.lr (setter)
SetLr(s, v) == [s EXCEPT !.regs[14] = v]

\* Registers.branch without the mask of bit 0
BranchUnmasked(s, a) == [s EXCEPT !.psr = WSetBit(@, T_BIT, a[2] % 2), !.regs[15] = a]

\* Registers.branch
Branch(s, a) == [s EXCEPT !.psr = WSetBit(@, T_BIT, a[2] % 2), !.regs[15] = Even(a)]

----------------------------------------------------------------------------
(* Exception manager, part 1: cpu/exceptions.py *)

\* FIXED_PRIORITIES
FixedNums == {1, 2, 3}
FixedPriority(n) == IF n = 1 THEN -3 ELSE IF n = 2 THEN -2 ELSE -1

\* an exception table whose entries all start disabled with priority 0
ExceptionStateUniform(n) ==
    [enabled |-> FALSE, pending |-> FALSE, active |-> FALSE, priority |-> 0]

\* ExceptionState.__init__
ExceptionState(n) ==
    [enabled  |-> n \in FixedNums,
     pending  |-> FALSE,
     active   |-> FALSE,
     priority |-> IF n \in FixedNums THEN FixedPriority(n) ELSE 0]

\* ExceptionManager.vtor (never written by the modelled stores)
vtor == Zero

\* ExceptionManager.set_pending / clear_pending
SetPending(s, n) ==
    IF n \in ExcNums THEN [s EXCEPT !.exceptions[n].pending = TRUE] ELSE s

ClearPending(s, n) ==
    IF n \in ExcNums THEN [s EXCEPT !.exceptions[n].pending = FALSE] ELSE s

\* ExceptionManager.set_enabled
SetEnabled(s, n, en) ==
    IF n \in ExcNums /\ n \notin FixedNums
    THEN [s EXCEPT !.exceptions[n].enabled = en] ELSE s

\* ExceptionManager.set_priority: priority & 0xF0
SetPriority(s, n, pri) ==
    IF n \in ExcNums /\ n \notin FixedNums
    THEN [s EXCEPT !.exceptions[n].priority = (pri \div 16) * 16] ELSE s

\* the IRQ numbers an ISER/ICER/ISPR/ICPR word write names: bit i of register
\* reg_idx is IRQ reg_idx*32 + i
IrqsNamed(reg_idx, value) ==
    {n \in ExcNums : n >= 16 /\ (n - 16) \div 32 = reg_idx /\ WBit(value, (n - 16) % 32) = 1}

RECURSIVE ApplyEach(_, _, _, _)
\* fold Op(s, n, arg) over the exceptions of set S, lowest number first
ApplyEach(s, S, kind, arg) ==
    IF S = {} THEN s
    ELSE LET n == SetMin(S)
             s1 == IF kind = "enable" THEN SetEnabled(s, n, arg)
                   ELSE IF arg THEN SetPending(s, n) ELSE ClearPending(s, n)
         IN ApplyEach(s1, S \ {n}, kind, arg)

\* ExceptionManager._write_enable_bits / _write_pending_bits
WriteEnableBits(s, reg_idx, value, enable) ==
    ApplyEach(s, IrqsNamed(reg_idx, value), "enable", enable)

WritePendingBits(s, reg_idx, value, pend) ==
    ApplyEach(s, IrqsNamed(reg_idx, value), "pending", pend)

\* one `if value & (1 << bit)` of _write_icsr
IcsrBit(s, value, bit, n, pend) ==
    IF WBit(value, bit) = 0 THEN s
    ELSE IF pend THEN SetPending(s, n) ELSE ClearPending(s, n)

\* ExceptionManager._write_icsr
WriteIcsr(s, value) ==
    IcsrBit(IcsrBit(IcsrBit(IcsrBit(IcsrBit(s, value, 26, 15, TRUE),
        value, 25, 15, FALSE), value, 28, 14, TRUE), value, 27, 14, FALSE),
        value, 31, 2, TRUE)

\* ExceptionManager.nvic_write, the IPR branch: four priority bytes per word
WriteIpr(s, offset, value) ==
    SetPriority(SetPriority(SetPriority(SetPriority(s,
        (offset \div 4) * 4 + 16, WByte(value, 0)),
        (offset \div 4) * 4 + 17, WByte(value, 1)),
        (offset \div 4) * 4 + 18, WByte(value, 2)),
        (offset \div 4) * 4 + 19, WByte(value, 3))

\* ExceptionManager._write_shpr
WriteShpr(s, base_exc, value) ==
    SetPriority(SetPriority(SetPriority(SetPriority(s,
        base_exc, WByte(value, 0)),
        base_exc + 1, WByte(value, 1)),
        base_exc + 2, WByte(value, 2)),
        base_exc + 3, WByte(value, 3))

\* ExceptionManager.nvic_write for an address 0xE000xxxx (lo is its low half).
\* The registers the modelled stores reach: ISER, ICER, ISPR, ICPR, IPR, ICSR,
\* CCR and SHCSR.
NvicWrite(s, lo, value) ==
    IF 57600 <= lo /\ lo < 57600 + 20            \* 0xE100 ISER
    THEN WriteEnableBits(s, (lo - 57600) \div 4, value, TRUE)
    ELSE IF 57728 <= lo /\ lo < 57728 + 20       \* 0xE180 ICER
    THEN WriteEnableBits(s, (lo - 57728) \div 4, value, FALSE)
    ELSE IF 57856 <= lo /\ lo < 57856 + 20       \* 0xE200 ISPR
    THEN WritePendingBits(s, (lo - 57856) \div 4, value, TRUE)
    ELSE IF 57984 <= lo /\ lo < 57984 + 20       \* 0xE280 ICPR
    THEN WritePendingBits(s, (lo - 57984) \div 4, value, FALSE)
    ELSE IF 58368 <= lo /\ lo < 58368 + 240      \* 0xE400 IPR
    THEN WriteIpr(s, lo - 58368, value)
    ELSE IF lo = 60676                           \* 0xED04 ICSR
    THEN WriteIcsr(s, value)
    ELSE IF lo = 60692                           \* 0xED14 CCR
    THEN [s EXCEPT !.ccr = value]
    ELSE IF lo = 60708                           \* 0xED24 SHCSR
    THEN [s EXCEPT !.shcsr = value,
                   !.exceptions[6].enabled = (WBit(value, 18) = 1)]
    ELSE IF lo = 60696 THEN WriteShpr(s, 4, value)     \* 0xED18 SHPR1
    ELSE IF lo = 60700 THEN WriteShpr(s, 8, value)     \* 0xED1C SHPR2
    ELSE IF lo = 60704 THEN WriteShpr(s, 12, value)    \* 0xED20 SHPR3
    ELSE s                     \* AIRCR (0xED0C) sets prigroup only, which nothing reads

\* one byte lane of the IPR branch of nvic_read
IprLane(s, n) == IF n \in ExcNums THEN (s.exceptions[n].priority \div 16) * 16 ELSE 0

\* ExceptionManager.nvic_read for an address 0xE000xxxx (lo is its low half),
\* for the registers the modelled loads reach: IPR, CCR and SHCSR.  The images
\* leave the priorities of the IRQs outside ExcNums at their reset value 0.
NvicRead(s, lo) ==
    IF 58368 <= lo /\ lo < 58368 + 240          \* 0xE400 IPR
    THEN W(IprLane(s, ((lo - 58368) \div 4) * 4 + 19) * 256
             + IprLane(s, ((lo - 58368) \div 4) * 4 + 18),
           IprLane(s, ((lo - 58368) \div 4) * 4 + 17) * 256
             + IprLane(s, ((lo - 58368) \div 4) * 4 + 16))
    ELSE IF lo = 60692 THEN s.ccr                \* 0xED14 CCR
    ELSE IF lo = 60708 THEN s.shcsr              \* 0xED24 SHCSR
    ELSE Zero

\* ExceptionManager.handles_address for an address 0xE000xxxx
HandlesAddress(lo) ==
    (57600 <= lo /\ lo <= 58623) \/ (60672 <= lo /\ lo <= 60735)

----------------------------------------------------------------------------
(* Bus: memory/bus.py, memory/sram.py *)

\* SRAMController._find_region: the address lies in a RAM region other than ITCM
InRam(a) ==
    \/ a[1] \in {8192, 8193}                      \* DTCM 0x20000000, 128 KiB
    \/ (9216 <= a[1] /\ a[1] <= 9231)             \* AXI SRAM 0x24000000, 1 MiB
    \/ a[1] \in {12288, 12289}                    \* AHB SRAM1 0x30000000
    \/ (a[1] = 12290 /\ a[2] < 32768)             \* AHB SRAM2 0x30020000, 32 KiB
    \/ (a[1] = 14464 /\ a[2] < 4096)              \* Backup SRAM 0x38800000, 4 KiB

\* RAMRegion.read32 of a zero-initialised region
RamRead32(s, a) == IF a \in DOMAIN s.mem THEN s.mem[a] ELSE Zero

\* RAMRegion.write32
RamWrite32(s, a, v) ==
    [s EXCEPT !.mem = [x \in (DOMAIN s.mem) \cup {a} |-> IF x = a THEN v ELSE s.mem[x]]]

\* the address lies in the system control space handled by the exception
\* manager (_read_system_periph / _write_system_periph, after the SysTick test)
InScs(a) ==
    a[1] = 57344 /\ 57344 <= a[2] /\ a[2] <= 61439 /\ HandlesAddress(a[2])

\* SystemBus._boot_from_flash: True from construction, set again before the
\* reset (main.py line 355) and never cleared
boot_from_flash == TRUE

\* the ITCM window of _do_read / _do_write, address < 0x00010000
InItcm(a) == a[1] = 0

\* the Flash window 0x08000000..0x081FFFFF and the external flash window
\* 0x90000000..0x900FFFFF of _do_read / _do_write
InFlash(a) == 2048 <= a[1] /\ a[1] <= 2079
InExtFlash(a) == 36864 <= a[1] /\ a[1] <= 36879

\* SystemBus._find_peripheral for the page 0x40000000..0x40007FFF: TIM2..TIM7,
\* SPI2 and I2C1 are registered there (main.py lines 142, 173-210)
FindPeripheral(a) ==
    a[1] = 16384 /\ (a[2] < 6144 \/ (14336 <= a[2] /\ a[2] < 15360)
                                \/ (21504 <= a[2] /\ a[2] < 22528))

\* SystemBus._is_peripheral_addr
IsPeripheralAddr(a) ==
    \/ (a[1] = 16384 /\ a[2] < 32768)
    \/ (a[1] = 16385 /\ a[2] < 28672)
    \/ (16386 <= a[1] /\ a[1] <= 16391)
    \/ (a[1] = 18434 /\ a[2] < 12288)
    \/ (20736 <= a[1] /\ a[1] <= 20991) \/ (a[1] = 20992 /\ a[2] < 36864)
    \/ (a[1] = 20480 /\ a[2] < 16384)
    \/ a[1] \in {22528, 22529} \/ (a[1] = 22530 /\ a[2] < 28672)
    \/ a[1] = 23552

\* SystemBus._stub_read / _stub_write: the dictionary keyed by the address
StubRead(s, a) == IF a \in DOMAIN s.mem THEN s.mem[a] ELSE Zero
StubWrite(s, a, v) == RamWrite32(s, a, v)

\* FlashController.read32 of Flash address `a`: a word of the bank's array
\* (the image in the first 64 KiB of bank 1, erased cells elsewhere in the
\* two banks), 0 from the bus outside the banks; no word of the array is
\* ever replaced after the load
FlashRead32(s, a) ==
    IF a \in DOMAIN s.mem THEN s.mem[a]
    ELSE IF a[1] = 2048 THEN FlashWord(a[2])
    ELSE IF a[1] \in {2049, 2064, 2065} THEN W(65535, 65535)
    ELSE Zero

\* _do_read, line 146: the Flash address behind the boot alias
AliasAddr(a) == W(2048, a[2])

\* SystemBus.read32 / _do_read of an aligned address: the boot alias while
\* _boot_from_flash is set, Flash, the RAM regions, the erased external
\* flash, the NVIC/SCB registers, the stub; a registered peripheral (its
\* device is not modelled) and an unknown address read as 0
BusRead32(s, a) ==
    IF InItcm(a) THEN (IF boot_from_flash THEN FlashRead32(s, AliasAddr(a)) ELSE RamRead32(s, a))
    ELSE IF InFlash(a) THEN FlashRead32(s, a)
    ELSE IF InRam(a) THEN RamRead32(s, a)
    ELSE IF InExtFlash(a) THEN W(65535, 65535)
    ELSE IF InScs(a) THEN NvicRead(s, a[2])
    ELSE IF ~FindPeripheral(a) /\ IsPeripheralAddr(a) THEN StubRead(s, a)
    ELSE Zero

\* SystemBus.read8 / _do_read: RAMRegion.read8 and FlashController.read8 give
\* the addressed byte; _read_system_periph passes the byte address to
\* nvic_read, _stub_read looks the byte address up, and read8 keeps the low
\* byte of what they return
BusRead8(s, a) ==
    IF InItcm(a)
    THEN (IF boot_from_flash THEN WByte(FlashRead32(s, AliasAddr(Align4(a))), a[2] % 4)
          ELSE WByte(RamRead32(s, Align4(a)), a[2] % 4))
    ELSE IF InFlash(a) THEN WByte(FlashRead32(s, Align4(a)), a[2] % 4)
    ELSE IF InRam(a) THEN WByte(RamRead32(s, Align4(a)), a[2] % 4)
    ELSE IF InExtFlash(a) THEN 255
    ELSE IF InScs(a) THEN WByte(NvicRead(s, a[2]), 0)
    ELSE IF ~FindPeripheral(a) /\ IsPeripheralAddr(a) THEN WByte(StubRead(s, a), 0)
    ELSE 0

\* the halfword of a little-endian word at an even address
WHalf(w, a) == IF a[2] % 4 = 0 THEN w[2] ELSE w[1]

\* SystemBus.read16 / _do_read of an even address
BusRead16(s, a) ==
    IF InItcm(a)
    THEN (IF boot_from_flash THEN WHalf(FlashRead32(s, AliasAddr(Align4(a))), a)
          ELSE WHalf(RamRead32(s, Align4(a)), a))
    ELSE IF InFlash(a) THEN WHalf(FlashRead32(s, Align4(a)), a)
    ELSE IF InRam(a) THEN WHalf(RamRead32(s, Align4(a)), a)
    ELSE IF InExtFlash(a) THEN 65535
    ELSE IF InScs(a) THEN NvicRead(s, a[2])[2]
    ELSE IF ~FindPeripheral(a) /\ IsPeripheralAddr(a) THEN StubRead(s, a)[2]
    ELSE 0

\* write32 that stores a word written to the Flash window in the bank
BusWrite32FlashWritable(s, a, v) == IF InFlash(a) THEN RamWrite32(s, a, v) ELSE s

\* SystemBus.write32 / _do_write / _write_system_periph of an aligned address;
\* a write to the Flash or the external flash window returns at once
BusWrite32(s, a, v) ==
    IF InItcm(a) THEN RamWrite32(s, a, v)
    ELSE IF InFlash(a) \/ InExtFlash(a) THEN s
    ELSE IF InRam(a) THEN RamWrite32(s, a, v)
    ELSE IF InScs(a) THEN NvicWrite(s, a[2], v)
    ELSE IF ~FindPeripheral(a) /\ IsPeripheralAddr(a) THEN StubWrite(s, a, v)
    ELSE s

\* RAMRegion.write8: one byte of the little-endian word
RamWrite8(s, a, b) ==
    RamWrite32(s, Align4(a), WSetByte(RamRead32(s, Align4(a)), a[2] % 4, b))

\* RAMRegion.write16 at an even address: two bytes of the word
RamWrite16(s, a, h) ==
    RamWrite32(s, Align4(a),
               IF a[2] % 4 = 0 THEN W(RamRead32(s, Align4(a))[1], h)
               ELSE W(h, RamRead32(s, Align4(a))[2]))

\* SystemBus.write8 / _do_write: _write_system_periph hands the byte address
\* and the 8-bit value to nvic_write, whatever the width, and _stub_write
\* stores the value under the byte address
BusWrite8(s, a, b) ==
    IF InItcm(a) THEN RamWrite8(s, a, b)
    ELSE IF InFlash(a) \/ InExtFlash(a) THEN s
    ELSE IF InRam(a) THEN RamWrite8(s, a, b)
    ELSE IF InScs(a) THEN NvicWrite(s, a[2], W(0, b))
    ELSE IF ~FindPeripheral(a) /\ IsPeripheralAddr(a) THEN StubWrite(s, a, W(0, b))
    ELSE s

\* SystemBus.write16 / _do_write of an even address
BusWrite16(s, a, h) ==
    IF InItcm(a) THEN RamWrite16(s, a, h)
    ELSE IF InFlash(a) \/ InExtFlash(a) THEN s
    ELSE IF InRam(a) THEN RamWrite16(s, a, h)
    ELSE IF InScs(a) THEN NvicWrite(s, a[2], W(0, h))
    ELSE IF ~FindPeripheral(a) /\ IsPeripheralAddr(a) THEN StubWrite(s, a, W(0, h))
    ELSE s

----------------------------------------------------------------------------
(* Exception manager, part 2: priority, selection, entry, return *)

EXC_RETURN_HANDLER_MSP == W(65535, 65521)    \* 0xFFFFFFF1
EXC_RETURN_THREAD_MSP == W(65535, 65529)     \* 0xFFFFFFF9
EXC_RETURN_THREAD_PSP == W(65535, 65533)     \* 0xFFFFFFFD

\* CortexM7.mem_read32 / mem_write32
MemRead32(s, addr) == BusRead32(s, Align4(addr))
MemWrite32(s, addr, v) == BusWrite32(s, Align4(addr), v)

\* CortexM7.mem_read8 / mem_read16 / mem_write8 / mem_write16
MemRead8(s, addr) == BusRead8(s, addr)
MemRead16(s, addr) == BusRead16(s, Even(addr))
MemWrite8(s, addr, v) == BusWrite8(s, addr, v[2] % 256)
MemWrite16(s, addr, v) == BusWrite16(s, Even(addr), v[2])

\* get_execution_priority without its PRIMASK test
PriorityWithoutPrimask(s) ==
    LET act == {s.exceptions[n].priority : n \in {m \in ExcNums : s.exceptions[m].active}}
        c0 == IF act = {} THEN 256 ELSE SetMin(act)
        c2 == IF s.faultmask % 2 = 1 /\ c0 > -1 THEN -1 ELSE c0
    IN IF s.basepri > 0 /\ c2 > s.basepri THEN s.basepri ELSE c2

\* ExceptionManager.get_execution_priority
GetExecutionPriority(s) ==
    LET act == {s.exceptions[n].priority : n \in {m \in ExcNums : s.exceptions[m].active}}
        c0 == IF act = {} THEN 256 ELSE SetMin(act)
        c1 == IF s.primask % 2 = 1 /\ c0 > 0 THEN 0 ELSE c0
        c2 == IF s.faultmask % 2 = 1 /\ c1 > -1 THEN -1 ELSE c1
    IN IF s.basepri > 0 /\ c2 > s.basepri THEN s.basepri ELSE c2

\* get_pending_exception without its tests of `enabled`
SkippedUnlessPending(e, n) == ~e.pending

\* the `continue` tests of the loop of get_pending_exception
Skipped(e, n) ==
    \/ ~e.pending
    \/ (~e.enabled /\ n >= 16)
    \/ (~e.enabled /\ n \in {4, 5, 6})

RECURSIVE ScanPending(_, _, _, _)
\* the loop of get_pending_exception from position i of the table on
ScanPending(s, i, best, best_priority) ==
    IF i > Len(ExcOrder) THEN best
    ELSE LET n == ExcOrder[i]
             e == s.exceptions[n]
         IN IF ~Skipped(e, n) /\ e.priority < best_priority
            THEN ScanPending(s, i + 1, n, e.priority)
            ELSE ScanPending(s, i + 1, best, best_priority)

\* ExceptionManager.get_pending_exception (0 stands for None)
GetPendingException(s) == ScanPending(s, 1, 0, GetExecutionPriority(s))

\* the stack exception_entry pushes the frame on
EntryUsesPsp(s) == Ipsr(s.psr) = 0 /\ Spsel(s)

\* exception_entry with EXC_RETURN always 0xFFFFFFF9
EntryExcReturnThreadMsp(s) == EXC_RETURN_THREAD_MSP

\* the EXC_RETURN value exception_entry puts in LR
EntryExcReturn(s) ==
    IF Ipsr(s.psr) # 0 THEN EXC_RETURN_HANDLER_MSP
    ELSE IF EntryUsesPsp(s) THEN EXC_RETURN_THREAD_PSP
    ELSE EXC_RETURN_THREAD_MSP

\* exception_entry without the STKALIGN adjustment
FrameAlignNever(s, sp0) == 0

\* exception_entry: 1 when the frame is realigned (CCR.STKALIGN and SP bit 2)
FrameAlign(s, sp0) == IF WBit(s.ccr, 9) = 1 /\ WBit(sp0, 2) = 1 THEN 1 ELSE 0

\* exception_entry: the frame pointer and the xPSR word of the frame
EntrySp(s) == IF EntryUsesPsp(s) THEN s.psp ELSE s.msp

EntryFrameSp(s) == WAdd(WAdd(EntrySp(s), -4 * FrameAlign(s, EntrySp(s))), -32)

EntryXpsr(s) == IF FrameAlign(s, EntrySp(s)) = 1 THEN WSetBit(s.psr, 9, 1) ELSE s.psr

RECURSIVE StoreWords(_, _, _)
\* consecutive mem_write32 calls, lowest address first
StoreWords(s, addr, words) ==
    IF words = << >> THEN s
    ELSE StoreWords(MemWrite32(s, addr, Head(words)), WAdd(addr, 4), Tail(words))

\* the eight stores of exception_entry
PushFrame(s, frame_sp, xpsr) ==
    StoreWords(s, frame_sp,
               <<GetReg(s, 0), GetReg(s, 1), GetReg(s, 2), GetReg(s, 3),
                 GetReg(s, 12), s.regs[14], s.regs[15], xpsr>>)

\* exception_entry that clears the pending flag of every exception
EntryMarkClearsAll(s1, use_psp, frame_sp, exc_return, n) ==
    [s1 EXCEPT !.psp = IF use_psp THEN frame_sp ELSE @,
               !.msp = IF use_psp THEN @ ELSE frame_sp,
               !.regs[14] = exc_return,
               !.exceptions = [m \in DOMAIN @ |->
                                  [@[m] EXCEPT !.pending = FALSE,
                                               !.active = (m = n) \/ @]],
               !.active_stack = Append(@, n),
               !.psr = SetIpsr(@, n)]

\* exception_entry after the stores: SP, LR, flags of the exception, IPSR
EntryMark(s1, use_psp, frame_sp, exc_return, n) ==
    [s1 EXCEPT !.psp = IF use_psp THEN frame_sp ELSE @,
               !.msp = IF use_psp THEN @ ELSE frame_sp,
               !.regs[14] = exc_return,
               !.exceptions[n].pending = FALSE,
               !.exceptions[n].active = TRUE,
               !.active_stack = Append(@, n),
               !.psr = SetIpsr(@, n)]

\* exception_entry, the end: the handler address from the vector table
EntryBranch(s4, n) == Branch(s4, MemRead32(s4, WAdd(vtor, n * 4)))

\* ExceptionManager.exception_entry
ExceptionEntry(s, n) ==
    EntryBranch(EntryMark(PushFrame(s, EntryFrameSp(s), EntryXpsr(s)),
                          EntryUsesPsp(s), EntryFrameSp(s), EntryExcReturn(s), n), n)

\* ExceptionManager.is_exc_return
IsExcReturn(v) == v[1] = 65535 /\ v[2] \div 256 = 255

\* exception_return with IPSR always back to Thread mode
ReturnIpsrThread(stack) == 0

\* the IPSR exception_return leaves: the new top of the active stack, or 0
ReturnIpsr(stack) == IF Len(stack) > 0 THEN stack[Len(stack)] ELSE 0

\* exception_return: the eight loads
ReturnFrame(s, frame_sp) == [i \in 0..7 |-> MemRead32(s, WAdd(frame_sp, 4 * i))]

\* exception_return that leaves the active flags alone
ReturnPopKeepsFlag(exceptions_, stack) == exceptions_

\* exception_return: the pop of the active stack
ReturnPop(exceptions_, stack) ==
    IF Len(stack) > 0
    THEN [exceptions_ EXCEPT ![stack[Len(stack)]].active = FALSE]
    ELSE exceptions_

PopStack(stack) == IF Len(stack) > 0 THEN SubSeq(stack, 1, Len(stack) - 1) ELSE stack

\* exception_return after the loads
ReturnFrom(s, use_psp, frame_sp, frame) ==
    Branch([s EXCEPT !.regs[0] = frame[0], !.regs[1] = frame[1],
                     !.regs[2] = frame[2], !.regs[3] = frame[3],
                     !.regs[12] = frame[4], !.regs[14] = frame[5],
                     !.psp = IF use_psp THEN WAdd(frame_sp, 32 + 4 * WBit(frame[7], 9))
                             ELSE @,
                     !.msp = IF use_psp THEN @
                             ELSE WAdd(frame_sp, 32 + 4 * WBit(frame[7], 9)),
                     !.exceptions = ReturnPop(@, s.active_stack),
                     !.active_stack = PopStack(@),
                     !.psr = SetIpsr(WSetBit(frame[7], 9, 0),
                                     ReturnIpsr(PopStack(s.active_stack)))],
           frame[6])

\* the stack pointer exception_return unstacks from
ReturnSp(s, exc_return_value) == IF WBit(exc_return_value, 2) = 1 THEN s.psp ELSE s.msp

\* ExceptionManager.exception_return
ExceptionReturn(s, exc_return_value) ==
    ReturnFrom(s, WBit(exc_return_value, 2) = 1, ReturnSp(s, exc_return_value),
               ReturnFrame(s, ReturnSp(s, exc_return_value)))

----------------------------------------------------------------------------
(* CPU: cpu/cortex_m7.py *)

None == -1

\* Instruction (cpu/decoder.py), the fields the modelled handlers read
Instruction(op, size, rd, rn, rm, rt, imm, register_list) ==
    [op |-> op, size |-> size, rd |-> rd, rn |-> rn, rm |-> rm, rt |-> rt,
     imm |-> imm, register_list |-> register_list]

\* PSR.update_flags_nz
UpdateFlagsNZ(p, result) ==
    WSetBit(WSetBit(p, 31, WBit(result, 31)), 30, IF result = Zero THEN 1 ELSE 0)

\* CortexM7._branch_written
BranchWritten(s) ==
    IF IsExcReturn(s.regs[15]) THEN ExceptionReturn(s, s.regs[15]) ELSE s

\* the closing `if ... == 15: self._branch_written()` of the handlers
IfPcWritten(s, written) == IF written THEN BranchWritten(s) ELSE s

\* _exec_mov: the value moved (MOVS Rd, #imm8 and MOV Rd, Rm)
MovValue(s, inst) == IF inst.imm # None THEN WInt(inst.imm) ELSE GetReg(s, inst.rm)

\* _exec_mov: the flag update; the carry is left as it is
MovFlags(s1, inst, val) ==
    IF inst.op = "MOVS" THEN [s1 EXCEPT !.psr = UpdateFlagsNZ(@, val)] ELSE s1

\* CortexM7._exec_mov
ExecMov(s, inst) ==
    IfPcWritten(MovFlags(SetReg(s, inst.rd, MovValue(s, inst)), inst, MovValue(s, inst)),
                inst.rd = 15)

\* CortexM7._exec_b, for an offset 0 <= imm < 65532
ExecB(s, inst) == SetPc(s, Even(WAdd(s.last_pc, 4 + inst.imm)))

\* CortexM7._exec_bkpt: with tracing off, nothing but the cycle it returns
ExecBkpt(s, inst) == s

\* _exec_bx on the target read from Rm
BxTo(s, target) ==
    IF IsExcReturn(target) THEN ExceptionReturn(s, target) ELSE Branch(s, target)

\* CortexM7._exec_bx
ExecBx(s, inst) == BxTo(s, GetReg(s, inst.rm))

\* CortexM7._calc_load_store_addr, immediate offset, index, add, no writeback
LoadStoreAddr(s, inst) == WAdd(GetReg(s, inst.rn), inst.imm)

\* CortexM7._exec_ldr
ExecLdr(s, inst) ==
    IfPcWritten(SetReg(s, inst.rt, MemRead32(s, LoadStoreAddr(s, inst))), inst.rt = 15)

\* CortexM7._exec_ldr_lit
ExecLdrLit(s, inst) ==
    SetReg(s, inst.rt, MemRead32(s, WAdd(Align4(WAdd(s.last_pc, 4)), inst.imm)))

\* CortexM7._exec_str
ExecStr(s, inst) == MemWrite32(s, LoadStoreAddr(s, inst), GetReg(s, inst.rt))

RECURSIVE PopRegs(_, _, _)
\* the loop of _exec_pop: registers of the list in ascending order
PopRegs(s, list, addr) ==
    IF list = {} THEN s
    ELSE PopRegs(SetReg(s, SetMin(list), MemRead32(s, addr)),
                 list \ {SetMin(list)}, WAdd(addr, 4))

\* CortexM7._exec_pop
ExecPop(s, inst) ==
    IfPcWritten(SetSp(PopRegs(s, inst.register_list, Sp(s)),
                      WAdd(Sp(s), 4 * Cardinality(inst.register_list))),
                15 \in inst.register_list)

\* ~w
WNot(w) == W(65535 - w[1], 65535 - w[2])

\* alu.shift_lsl, shift_lsr, shift_asr: the result
ShiftLsl(v, n) ==
    IF n = 0 THEN v
    ELSE IF n < 16
    THEN W((v[1] % (2 ^ (16 - n))) * (2 ^ n) + v[2] \div (2 ^ (16 - n)),
           (v[2] % (2 ^ (16 - n))) * (2 ^ n))
    ELSE IF n < 32 THEN W((v[2] % (2 ^ (32 - n))) * (2 ^ (n - 16)), 0)
    ELSE Zero

ShiftLsr(v, n) ==
    IF n = 0 THEN v
    ELSE IF n < 16
    THEN W(v[1] \div (2 ^ n), (v[1] % (2 ^ n)) * (2 ^ (16 - n)) + v[2] \div (2 ^ n))
    ELSE IF n < 32 THEN W(0, v[1] \div (2 ^ (n - 16)))
    ELSE Zero

ShiftAsr(v, n) ==
    IF WBit(v, 31) = 0 THEN ShiftLsr(v, n) ELSE WNot(ShiftLsr(WNot(v), n))

\* alu.shift_lsl, shift_lsr, shift_asr: the carry out
ShiftCarry(op, v, n, carry_in) ==
    IF n = 0 THEN carry_in
    ELSE IF op = "LSLS" THEN (IF n <= 32 THEN WBit(v, 32 - n) ELSE 0)
    ELSE IF n <= 32 THEN WBit(v, n - 1)
    ELSE IF op = "ASRS" THEN WBit(v, 31) ELSE 0

ShiftResult(op, v, n) ==
    CASE op = "LSLS" -> ShiftLsl(v, n)
      [] op = "LSRS" -> ShiftLsr(v, n)
      [] OTHER -> ShiftAsr(v, n)

\* _exec_shift_reg: the shift amount
ShiftAmount(s, inst) ==
    IF inst.rs # None THEN GetReg(s, inst.rs)[2] % 256
    ELSE IF inst.rm # None THEN GetReg(s, inst.rm)[2] % 256
    ELSE 0

\* _exec_shift_reg: the flag update
ShiftFlags(s1, result, carry) ==
    [s1 EXCEPT !.psr = WSetBit(UpdateFlagsNZ(@, result), 29, carry)]

\* CortexM7._exec_shift_reg, for an instruction whose rn is a register
ExecShiftReg(s, inst) ==
    ShiftFlags(SetReg(s, inst.rd,
                      ShiftResult(inst.op, GetReg(s, inst.rn), ShiftAmount(s, inst))),
               ShiftResult(inst.op, GetReg(s, inst.rn), ShiftAmount(s, inst)),
               ShiftCarry(inst.op, GetReg(s, inst.rn), ShiftAmount(s, inst),
                          WBit(s.psr, 29)))

\* _exec_shift_reg, line 618: self.regs[inst.rn] of an instruction whose rn the
\* decoder left None raises TypeError (Registers.__getitem__ indexes a list)
ShiftRaises(inst) == inst.op \in {"LSLS", "LSRS", "ASRS"} /\ inst.rn = None

RECURSIVE PushRegs(_, _, _)
\* the loop of _exec_push: registers of the list in ascending order
PushRegs(s, list, addr) ==
    IF list = {} THEN s
    ELSE PushRegs(MemWrite32(s, addr, GetReg(s, SetMin(list))),
                  list \ {SetMin(list)}, WAdd(addr, 4))

\* CortexM7._exec_push
ExecPush(s, inst) ==
    SetSp(PushRegs(s, inst.register_list,
                   WAdd(Sp(s), -4 * Cardinality(inst.register_list))),
          WAdd(Sp(s), -4 * Cardinality(inst.register_list)))

\* CortexM7._exec_svc
ExecSvc(s, inst) == SetPending(s, 11)

\* CortexM7._exec_cpsid / _exec_cpsie
ExecCpsid(s, inst) ==
    [s EXCEPT !.primask = IF (inst.imm \div 2) % 2 = 1 THEN 1 ELSE @,
              !.faultmask = IF inst.imm % 2 = 1 THEN 1 ELSE @]

ExecCpsie(s, inst) ==
    [s EXCEPT !.primask = IF (inst.imm \div 2) % 2 = 1 THEN 0 ELSE @,
              !.faultmask = IF inst.imm % 2 = 1 THEN 0 ELSE @]

\* _exec_msr that writes BASEPRI whatever the written value
ExecMsrUnconditional(s, inst) == [s EXCEPT !.basepri = GetReg(s, inst.rn)[2] % 256]

\* CortexM7._exec_msr
ExecMsr(s, inst) ==
    LET val == GetReg(s, inst.rn)
        sysm == inst.imm
        new == val[2] % 256
    IN IF sysm \in {0, 1, 2, 3}
       THEN [s EXCEPT !.psr = W((@[1] % 2048) + (val[1] \div 2048) * 2048, @[2])]
       ELSE IF sysm = 8 THEN [s EXCEPT !.msp = val]
       ELSE IF sysm = 9 THEN [s EXCEPT !.psp = val]
       ELSE IF sysm = 16 THEN [s EXCEPT !.primask = val[2] % 2]
       ELSE IF sysm = 17 THEN [s EXCEPT !.basepri = new]
       ELSE IF sysm = 18
            THEN IF new # 0 /\ (s.basepri = 0 \/ new < s.basepri)
                 THEN [s EXCEPT !.basepri = new] ELSE s
       ELSE IF sysm = 19 THEN [s EXCEPT !.faultmask = val[2] % 2]
       ELSE IF sysm = 20 THEN [s EXCEPT !.control = val[2] % 4]
       ELSE s

\* the address of LDREX / STREX
ExclusiveAddr(s, inst) == WAdd(GetReg(s, inst.rn), inst.imm)

\* CortexM7._exec_ldrex
ExecLdrex(s, inst) ==
    [SetReg(s, inst.rt, MemRead32(s, ExclusiveAddr(s, inst)))
        EXCEPT !.exclusive_addr = ExclusiveAddr(s, inst), !.exclusive_active = TRUE]

\* CortexM7._exec_strex
ExecStrex(s, inst) ==
    IF s.exclusive_active /\ s.exclusive_addr = ExclusiveAddr(s, inst)
    THEN [SetReg(MemWrite32(s, ExclusiveAddr(s, inst), GetReg(s, inst.rt)),
                 inst.rd, WInt(0))
             EXCEPT !.exclusive_active = FALSE]
    ELSE SetReg(s, inst.rd, WInt(1))

\* CortexM7._exec_strexb: the address is Rn, and it is not compared with the
\* address the monitor recorded
ExecStrexb(s, inst) ==
    IF s.exclusive_active
    THEN [SetReg(MemWrite8(s, GetReg(s, inst.rn), GetReg(s, inst.rt)), inst.rd, WInt(0))
             EXCEPT !.exclusive_active = FALSE]
    ELSE SetReg(s, inst.rd, WInt(1))

\* CortexM7._exec_strexh
ExecStrexh(s, inst) ==
    IF s.exclusive_active
    THEN [SetReg(MemWrite16(s, GetReg(s, inst.rn), GetReg(s, inst.rt)), inst.rd, WInt(0))
             EXCEPT !.exclusive_active = FALSE]
    ELSE SetReg(s, inst.rd, WInt(1))

\* CortexM7._exec_clrex
ExecClrex(s, inst) == [s EXCEPT !.exclusive_active = FALSE]

\* CortexM7._exec_ldrb / _exec_strb
ExecLdrb(s, inst) == SetReg(s, inst.rt, WInt(MemRead8(s, LoadStoreAddr(s, inst))))
ExecStrb(s, inst) == MemWrite8(s, LoadStoreAddr(s, inst), GetReg(s, inst.rt))

\* CortexM7._exec_ldrh / _exec_strh
ExecLdrh(s, inst) == SetReg(s, inst.rt, WInt(MemRead16(s, LoadStoreAddr(s, inst))))
ExecStrh(s, inst) == MemWrite16(s, LoadStoreAddr(s, inst), GetReg(s, inst.rt))

\* CortexM7._exec_it
ExecIt(s, inst) == [s EXCEPT !.it_state = inst.firstcond * 16 + inst.mask]

\* CortexM7._exec_wfi
ExecWfi(s, inst) == [s EXCEPT !.halted = TRUE]

\* _exec_unknown that pends nothing
ExecUnknownIgnored(s, inst) == s

\* CortexM7._exec_unknown / _exec_undefined
ExecUnknown(s, inst) == SetPending(s, 3)
ExecUndefined(s, inst) == SetPending(s, 6)

\* CortexM7._execute: the dispatch table
Execute(s, inst) ==
    CASE inst.op \in {"MOV", "MOVS"} -> ExecMov(s, inst)
      [] inst.op = "BX" -> ExecBx(s, inst)
      [] inst.op = "LDR" -> ExecLdr(s, inst)
      [] inst.op = "LDR_LIT" -> ExecLdrLit(s, inst)
      [] inst.op = "STR" -> ExecStr(s, inst)
      [] inst.op = "POP" -> ExecPop(s, inst)
      [] inst.op = "PUSH" -> ExecPush(s, inst)
      [] inst.op = "B" -> ExecB(s, inst)
      [] inst.op = "BKPT" -> ExecBkpt(s, inst)
      [] inst.op \in {"LSLS", "LSRS", "ASRS"} -> ExecShiftReg(s, inst)
      [] inst.op = "SVC" -> ExecSvc(s, inst)
      [] inst.op = "CPSID" -> ExecCpsid(s, inst)
      [] inst.op = "CPSIE" -> ExecCpsie(s, inst)
      [] inst.op = "MSR" -> ExecMsr(s, inst)
      [] inst.op = "LDREX" -> ExecLdrex(s, inst)
      [] inst.op = "STREX" -> ExecStrex(s, inst)
      [] inst.op = "STREXB" -> ExecStrexb(s, inst)
      [] inst.op = "STREXH" -> ExecStrexh(s, inst)
      [] inst.op = "CLREX" -> ExecClrex(s, inst)
      [] inst.op = "LDRB" -> ExecLdrb(s, inst)
      [] inst.op = "STRB" -> ExecStrb(s, inst)
      [] inst.op = "LDRH" -> ExecLdrh(s, inst)
      [] inst.op = "STRH" -> ExecStrh(s, inst)
      [] inst.op = "IT" -> ExecIt(s, inst)
      [] inst.op = "WFI" -> ExecWfi(s, inst)
      [] inst.op = "UNKNOWN" -> ExecUnknown(s, inst)
      [] inst.op = "UNDEFINED" -> ExecUndefined(s, inst)
      [] OTHER -> s

\* CortexM7._in_it_block / _it_block_condition / _advance_it_state
InItBlock(s) == s.it_state % 16 # 0

ItBlockCondition(s) == IF ~InItBlock(s) THEN 14 ELSE (s.it_state \div 16) % 16

AdvanceItState(s) ==
    IF InItBlock(s)
    THEN LET mask == s.it_state % 16 IN
         IF mask = 8 THEN [s EXCEPT !.it_state = 0]
         ELSE [s EXCEPT !.it_state = ((@ \div 32) % 8) * 32 + ((mask * 2) % 32)]
    ELSE s

\* CortexM7._check_condition on a condition number 0..14
CheckCondition(s, cond) ==
    LET N == WBit(s.psr, 31) = 1
        Z == WBit(s.psr, 30) = 1
        C == WBit(s.psr, 29) = 1
        V == WBit(s.psr, 28) = 1
    IN CASE cond = 0 -> Z        [] cond = 1 -> ~Z
         [] cond = 2 -> C        [] cond = 3 -> ~C
         [] cond = 4 -> N        [] cond = 5 -> ~N
         [] cond = 6 -> V        [] cond = 7 -> ~V
         [] cond = 8 -> C /\ ~Z  [] cond = 9 -> ~C \/ Z
         [] cond = 10 -> N = V   [] cond = 11 -> N # V
         [] cond = 12 -> ~Z /\ (N = V)
         [] cond = 13 -> Z \/ (N # V)
         [] OTHER -> TRUE

\* step, lines 201-221: _last_pc, and the PC moved past the instruction
StepAdvance(s, inst) ==
    SetPc([s EXCEPT !.last_pc = s.regs[15]], WAdd(s.regs[15], inst.size))

\* step, lines 216-218: the condition the instruction runs under.  The decoder
\* gives an IT instruction its first condition as cond (decoder.py line 765)
\* and the other modelled instructions cond = AL.
StepCond(s, inst) ==
    IF InItBlock(s) /\ inst.op # "IT" THEN ItBlockCondition(s)
    ELSE IF inst.op = "IT" THEN inst.firstcond
    ELSE 14

\* step, lines 236-237: the IT state moves on after an instruction of the block
StepItAdvance(s2, inst) ==
    IF InItBlock(s2) /\ inst.op # "IT" THEN AdvanceItState(s2) ELSE s2

\* step, lines 224-237
StepRun(s1, inst, cond) ==
    IF cond # 14 /\ ~CheckCondition(s1, cond)
    THEN AdvanceItState(s1)
    ELSE StepItAdvance(Execute(s1, inst), inst)

\* the value the handler of the dispatch table returns
Cycles(inst) ==
    CASE inst.op \in {"LDR", "LDR_LIT", "STR", "LDRB", "STRB", "LDRH", "STRH",
                      "MSR", "LDREX", "STREX", "STREXB", "STREXH"} -> 2
      [] inst.op \in {"POP", "PUSH"} -> 1 + Cardinality(inst.register_list)
      [] OTHER -> 1

\* step, lines 224-244: the cycles step() adds to cycle_count and returns,
\* 1 for an instruction whose condition fails
StepCycles(s, inst) ==
    IF StepCond(s, inst) # 14 /\ ~CheckCondition(s, StepCond(s, inst))
    THEN 1 ELSE Cycles(inst)

\* CortexM7.step from the fetch on (lines 201-244), for the decoded instruction
\* found at the PC
StepExec(s, inst) == StepRun(StepAdvance(s, inst), inst, StepCond(s, inst))

----------------------------------------------------------------------------
(* The machine *)

\* the machine state as one record, and its commit to the variables
Cur ==
    [regs |-> regs, msp |-> msp, psp |-> psp, psr |-> psr, primask |-> primask,
     faultmask |-> faultmask, basepri |-> basepri, control |-> control,
     exceptions |-> exceptions, active_stack |-> active_stack, ccr |-> ccr,
     shcsr |-> shcsr, mem |-> mem, it_state |-> it_state, halted |-> halted,
     exclusive_active |-> exclusive_active, exclusive_addr |-> exclusive_addr,
     last_pc |-> last_pc]

Commit(s) ==
    /\ regs' = s.regs /\ msp' = s.msp /\ psp' = s.psp /\ psr' = s.psr
    /\ primask' = s.primask /\ faultmask' = s.faultmask
    /\ basepri' = s.basepri /\ control' = s.control
    /\ exceptions' = s.exceptions /\ active_stack' = s.active_stack
    /\ ccr' = s.ccr /\ shcsr' = s.shcsr /\ mem' = s.mem
    /\ it_state' = s.it_state /\ halted' = s.halted
    /\ exclusive_active' = s.exclusive_active
    /\ exclusive_addr' = s.exclusive_addr
    /\ last_pc' = s.last_pc
    /\ UNCHANGED gwVars

\* Registers.reset(initial_sp, initial_pc) on the first two words of the flash
ResetRegs ==
    [i \in 0..15 |->
        CASE i = 13 -> Align4(FlashWord(0))
          [] i = 15 -> Even(FlashWord(4))
          [] OTHER -> Zero]

\* the state after CortexM7.__init__, ExceptionManager.__init__ and reset()
InitState ==
    [regs |-> ResetRegs,
     msp |-> Align4(FlashWord(0)), psp |-> Zero,
     psr |-> WSetBit(Zero, T_BIT, FlashWord(4)[2] % 2),
     primask |-> 0, faultmask |-> 0, basepri |-> 0, control |-> 0,
     exceptions |-> [n \in ExcNums |-> ExceptionState(n)],
     active_stack |-> << >>,
     ccr |-> W(0, 512), shcsr |-> Zero,
     mem |-> [a \in {} |-> Zero],
     it_state |-> 0, halted |-> FALSE,
     exclusive_active |-> FALSE, exclusive_addr |-> Zero,
     last_pc |-> Zero]

Images == {"entry", "priority", "branch", "exclusive", "it", "byte", "bus",
           "handler", "basepri", "shift", "errors",
           "break", "test_branch",
           "fixed", "it_irq", "pend"}

----------------------------------------------------------------------------
(* The second emulator: gwemu/cpu.py, gwemu/memory.py, run by tests/test_cpu.py *)

\* the halfwords the flash of a test program may hold at offset off (the
\* programs of tests/test_cpu.py, with variants where several are listed);
\* words 0 and 4 are the initial SP and PC
GwFlash(prog, off) ==
    IF off = 4 THEN {8} ELSE IF off = 6 THEN {2048}
    ELSE IF off = 2 THEN {8192}
    ELSE IF prog = "branch" THEN
        CASE off = 0 -> {4096}
          [] off = 8 -> {57345, 57344}              \* B +4 (E001), B +2 (E000)
          [] off = 10 -> {8453}                     \* MOVS r1, #5
          [] off = 12 -> {8455}                     \* MOVS r1, #7
          [] off = 14 -> {48640}                    \* BKPT
          [] OTHER -> {0}
    ELSE IF prog = "cmp" THEN
        CASE off = 0 -> {4096}
          [] off = 8 -> {8197, 8195, 8192}          \* MOVS r0, #5 / #3 / #0
          [] off = 10 -> {10243, 14339}             \* CMP r0, #3 (2803); SUBS r0, #3
          [] off = 12 -> {53249 + 256 * c : c \in 0..15}  \* B<cond> skip; SVC
          [] off = 14 -> {8193}                     \* MOVS r0, #1
          [] off = 16 -> {48640}
          [] OTHER -> {0}
    ELSE IF prog = "ldm_stm" THEN
        CASE off = 0 -> {256}
          [] off = 8 -> {18435}                     \* LDR r0, [PC, #12]
          [] off = 10 -> {8450, 8703}               \* MOVS r1, #2 / #255
          [] off = 12 -> {49154, 24577}             \* STMIA r0!, {r1}; STR r1, [r0]
          [] off = 14 -> {18434, 48896}             \* LDR r0, [PC, #8]; NOP
          [] off = 16 -> {51204, 26626}             \* LDMIA r0!, {r2}; LDR r2, [r0]
          [] off = 18 -> {48640}
          [] off = 20 -> {48896}
          [] off = 22 -> {48896}
          [] off = 24 -> {128}                      \* SRAM_BASE + 0x80
          [] off = 26 -> {8192}
          [] OTHER -> {0}
    ELSE IF prog = "mov_high" THEN
        CASE off = 0 -> {4096}
          [] off = 8 -> {8199, 8192}                \* MOVS r0, #7 / #0
          [] off = 10 -> {18048}                    \* MOV r8, r0 (4680)
          [] off = 12 -> {18690}                    \* LDR r1, [PC, #8]
          [] off = 14 -> {8201, 48896}              \* MOVS r0, #9; NOP
          [] off = 16 -> {18048, 17984}             \* MOV r8, r0; MOV r0, r8 (4640)
          [] off = 18 -> {18184, 48896}             \* BX r1 (4708); NOP
          [] off = 20 -> {48640}
          [] off = 22 -> {48640}
          [] off = 24 -> {23}                       \* 0x08000017
          [] off = 26 -> {2048}
          [] OTHER -> {0}
    ELSE IF prog = "push_pop" THEN
        CASE off = 0 -> {512}
          [] off = 8 -> {8193, 8447}                \* MOVS r0, #1 / #255
          [] off = 10 -> {8450, 8448}               \* MOVS r1, #2 / #0
          [] off = 12 -> {46083}                    \* PUSH {r0, r1}
          [] off = 14 -> {8192}                     \* MOVS r0, #0
          [] off = 16 -> {8448}                     \* MOVS r1, #0
          [] off = 18 -> {48131}                    \* POP {r0, r1}
          [] off = 20 -> {12290, 12543}             \* ADDS r0, #2 / #255
          [] off = 22 -> {14337, 14345}             \* SUBS r0, #1 / #9
          [] off = 24 -> {48640}
          [] OTHER -> {0}
    ELSE {0}

GwPrograms == {"branch", "cmp", "ldm_stm", "mov_high", "push_pop"}

\* MemoryRegion.contains for the regions of build_default_memory: the flash
\* of 512 KB at 0x08000000 and the SRAM of 1380 KB at 0x20000000
GwInFlash(a, length) ==
    2048 <= a[1] /\ (a[1] < 2055 \/ (a[1] = 2055 /\ a[2] + length <= H))
GwInSram(a, length) ==
    8192 <= a[1] /\ (a[1] < 8213 \/ (a[1] = 8213 /\ a[2] + length <= 36864))

GwMapped(a, length) == GwInFlash(a, length) \/ GwInSram(a, length)

\* MemoryRegion.read of one byte (the flash bytes of the data words of a
\* program are the same in all its variants)
GwByte(prog, m, a) ==
    IF GwInFlash(a, 1)
    THEN IF a[1] # 2048 \/ a[2] >= 32 THEN 0
         ELSE LET h == CHOOSE x \in GwFlash(prog, a[2] - (a[2] % 2)) : TRUE
              IN IF a[2] % 2 = 0 THEN h % 256 ELSE h \div 256
    ELSE IF a \in DOMAIN m THEN m[a] ELSE 0

\* MemoryMap.read32, on a mapped address
GwRead32(prog, m, a) ==
    W(GwByte(prog, m, WAdd(a, 3)) * 256 + GwByte(prog, m, WAdd(a, 2)),
      GwByte(prog, m, WAdd(a, 1)) * 256 + GwByte(prog, m, a))

\* MemoryMap.write32, on a mapped address: MemoryRegion.write drops the
\* write to a read-only region
GwWrite32(m, a, v) ==
    IF GwInFlash(a, 4) THEN m
    ELSE [x \in DOMAIN m \cup {WAdd(a, i) : i \in 0..3} |->
            IF \E i \in 0..3 : x = WAdd(a, i)
            THEN WByte(v, CHOOSE i \in 0..3 : x = WAdd(a, i))
            ELSE m[x]]

\* the emulator as a record
GwCur ==
    [regs |-> gw_regs, xpsr |-> gw_xpsr, halted |-> gw_halted, mem |-> gw_mem,
     raised |-> gw_raised, program |-> gw_program]

GwRaise(s, e) == [s EXCEPT !.raised = e]

\* a read32 / write32 that raises ValueError on an unmapped address
GwLoad(s, rd, a) ==
    IF GwMapped(a, 4)
    THEN [s EXCEPT !.regs[rd] = GwRead32(s.program, s.mem, a)]
    ELSE GwRaise(s, "ValueError")

GwStore(s, a, v) ==
    IF GwMapped(a, 4) THEN [s EXCEPT !.mem = GwWrite32(@, a, v)]
    ELSE GwRaise(s, "ValueError")

\* lhs + rhs and lhs - rhs modulo 2^32, the carry out of the sum, lhs >= rhs
GwSum(a, b) ==
    W((a[1] + b[1] + (a[2] + b[2]) \div H) % H, (a[2] + b[2]) % H)
GwCarry(a, b) == (a[1] + b[1] + (a[2] + b[2]) \div H) \div H
GwDiff(a, b) ==
    W((a[1] - b[1] - (IF a[2] < b[2] THEN 1 ELSE 0) + H) % H, (a[2] - b[2] + H) % H)
GwGe(a, b) == a[1] > b[1] \/ (a[1] = b[1] /\ a[2] >= b[2])

\* CortexMEmulator._set_flags_nz, _set_flags_add, _set_flags_sub
GwSetFlagsNZ(x, value) ==
    WSetBit(WSetBit(x, 31, WBit(value, 31)), 30, IF value = Zero THEN 1 ELSE 0)

GwSetFlagsAdd(x, lhs, rhs) ==
    WSetBit(WSetBit(GwSetFlagsNZ(x, GwSum(lhs, rhs)), 29, GwCarry(lhs, rhs)), 28,
            IF WBit(lhs, 31) = WBit(rhs, 31) /\ WBit(lhs, 31) # WBit(GwSum(lhs, rhs), 31)
            THEN 1 ELSE 0)

GwSetFlagsSub(x, lhs, rhs) ==
    WSetBit(WSetBit(GwSetFlagsNZ(x, GwDiff(lhs, rhs)), 29, IF GwGe(lhs, rhs) THEN 1 ELSE 0),
            28,
            IF WBit(lhs, 31) # WBit(rhs, 31) /\ WBit(lhs, 31) # WBit(GwDiff(lhs, rhs), 31)
            THEN 1 ELSE 0)

\* CortexMEmulator._condition_passed
GwConditionPassed(x, cond) ==
    LET z == WBit(x, 30) = 1
        n == WBit(x, 31) = 1
        c == WBit(x, 29) = 1
        v == WBit(x, 28) = 1
    IN CASE cond = 0 -> z        [] cond = 1 -> ~z
         [] cond = 2 -> c        [] cond = 3 -> ~c
         [] cond = 4 -> n        [] cond = 5 -> ~n
         [] cond = 6 -> v        [] cond = 7 -> ~v
         [] cond = 8 -> c /\ ~z  [] cond = 9 -> ~c \/ z
         [] cond = 10 -> n = v   [] cond = 11 -> n # v
         [] cond = 12 -> ~z /\ (n = v)
         [] cond = 13 -> z \/ (n # v)
         [] OTHER -> FALSE

\* the chain of tests of _execute_thumb, in its order: the branch that
\* handles the halfword instr
GwClass(instr) ==
    IF instr = 48896 THEN "NOP"
    ELSE IF instr = 48640 THEN "BKPT"
    ELSE IF instr \div 8192 = 0 /\ (instr \div 2048) % 4 # 3 THEN "SHIFT_IMM"
    ELSE IF instr \div 2048 = 4 THEN "MOVS_IMM"
    ELSE IF instr \div 2048 = 6 THEN "ADDS_IMM"
    ELSE IF instr \div 2048 = 7 THEN "SUBS_IMM"
    ELSE IF instr \div 2048 = 3 THEN "ADD_SUB_REG"
    ELSE IF instr \div 2048 = 9 THEN "LDR_LIT"
    ELSE IF instr \div 4096 = 5 /\ BitAt(instr, 9) = 0 THEN "LDR_STR_REG"
    ELSE IF instr \div 4096 = 6 THEN "LDR_STR_IMM"
    ELSE IF instr \div 4096 \in {7, 8, 9} THEN "LDR_STR_OTHER"
    ELSE IF instr \div 2048 = 21 THEN "ADD_SP"
    ELSE IF instr \div 4096 = 13 THEN (IF (instr \div 256) % 16 = 15 THEN "SVC" ELSE "B_COND")
    ELSE IF instr \div 2048 = 28 THEN "B"
    ELSE IF instr \div 1024 = 16 /\ (instr \div 64) % 16 \in {0, 1, 2, 3, 4, 8, 10}
         THEN "DATA_PROC"
    ELSE IF instr \div 64 = 266 THEN "CMP_REG"
    ELSE IF instr \div 1024 = 17 THEN "ADD_HIGH"
    ELSE IF instr \div 128 = 142 /\ instr % 8 = 0 THEN "BX"
    ELSE IF instr \div 512 = 90 THEN "PUSH"
    ELSE IF instr \div 512 = 94 THEN "POP"
    ELSE IF instr \div 2048 = 22 THEN "SP_ADJUST"
    ELSE "UNSUPPORTED"

\* the low registers of an 8-bit register list
GwList(register_list) == {i \in 0..7 : BitAt(register_list, i) = 1}

RECURSIVE GwPushRegs(_, _)
\* CortexMEmulator._push: the registers in descending order
GwPushRegs(s, registers) ==
    IF registers = {} \/ s.raised # "" THEN s
    ELSE LET reg == CHOOSE x \in registers : \A y \in registers : y <= x
             s1 == [s EXCEPT !.regs[13] = WAdd(@, -4)]
         IN GwPushRegs(GwStore(s1, s1.regs[13], s1.regs[reg]), registers \ {reg})

RECURSIVE GwPopRegs(_, _)
\* CortexMEmulator._pop: the registers in ascending order
GwPopRegs(s, registers) ==
    IF registers = {} \/ s.raised # "" THEN s
    ELSE LET s1 == GwLoad(s, SetMin(registers), s.regs[13])
         IN GwPopRegs(IF s1.raised # "" THEN s1 ELSE [s1 EXCEPT !.regs[13] = WAdd(@, 4)],
                      registers \ {SetMin(registers)})

\* CortexMEmulator._execute_thumb, for the branches the test programs reach;
\* next_pc is the PC step() has already written
GwExecute(s, instr, next_pc) ==
    LET c == GwClass(instr)
        rd8 == (instr \div 256) % 8
        imm8 == instr % 256
    IN CASE c = "NOP" -> s
         [] c = "BKPT" -> [s EXCEPT !.halted = TRUE]
         [] c = "MOVS_IMM" ->
              [s EXCEPT !.regs[rd8] = WInt(imm8), !.xpsr = GwSetFlagsNZ(@, WInt(imm8))]
         [] c = "ADDS_IMM" ->
              [s EXCEPT !.regs[rd8] = GwSum(@, WInt(imm8)),
                        !.xpsr = GwSetFlagsAdd(@, s.regs[rd8], WInt(imm8))]
         [] c = "SUBS_IMM" ->
              [s EXCEPT !.regs[rd8] = GwDiff(@, WInt(imm8)),
                        !.xpsr = GwSetFlagsSub(@, s.regs[rd8], WInt(imm8))]
         [] c = "LDR_LIT" ->
              GwLoad(s, rd8, WAdd(Align4(WAdd(next_pc, 2)), 4 * imm8))
         [] c = "LDR_STR_IMM" ->
              IF BitAt(instr, 11) = 1
              THEN GwLoad(s, instr % 8,
                          WAdd(s.regs[(instr \div 8) % 8], 4 * ((instr \div 64) % 32)))
              ELSE GwStore(s, WAdd(s.regs[(instr \div 8) % 8], 4 * ((instr \div 64) % 32)),
                           s.regs[instr % 8])
         [] c = "SVC" -> GwRaise(s, "NotImplementedError")
         [] c = "B_COND" ->
              IF GwConditionPassed(s.xpsr, (instr \div 256) % 16)
              THEN [s EXCEPT !.regs[15] =
                       WAdd(next_pc, IF imm8 < 128 THEN 2 * imm8 ELSE 2 * imm8 - 512)]
              ELSE s
         [] c = "B" ->
              [s EXCEPT !.regs[15] =
                  WAdd(next_pc, IF instr % 2048 < 1024 THEN 2 * (instr % 2048)
                                ELSE 2 * (instr % 2048) - 4096)]
         [] c = "ADD_HIGH" ->
              [s EXCEPT !.regs[(instr % 8) + 8 * BitAt(instr, 7)] =
                           GwSum(@, s.regs[(instr \div 8) % 16])]
         [] c = "BX" -> [s EXCEPT !.regs[15] = Even(s.regs[(instr \div 8) % 16])]
         [] c = "PUSH" ->
              GwPushRegs(s, GwList(imm8) \cup (IF BitAt(instr, 8) = 1 THEN {14} ELSE {}))
         [] c = "POP" ->
              GwPopRegs(s, GwList(imm8) \cup (IF BitAt(instr, 8) = 1 THEN {15} ELSE {}))
         [] c = "UNSUPPORTED" -> GwRaise(s, "NotImplementedError")

\* CortexMEmulator.step on a running emulator, for the halfword instr at the PC
GwStepExec(s, instr) ==
    GwExecute([s EXCEPT !.regs[15] = WAdd(@, 2)], instr, WAdd(s.regs[15], 2))

GwCommit(s) ==
    /\ gw_regs' = s.regs /\ gw_xpsr' = s.xpsr /\ gw_halted' = s.halted
    /\ gw_mem' = s.mem /\ gw_raised' = s.raised
    /\ UNCHANGED <<gw_program, coreVars>>

\* one pass of the loop of CortexMEmulatorTests._run
GwStep(instr) ==
    /\ gw_program \in GwPrograms /\ ~gw_halted /\ gw_raised = ""
    /\ gw_regs[15][1] = 2048 /\ gw_regs[15][2] < 32
    /\ instr \in GwFlash(gw_program, gw_regs[15][2])
    /\ GwCommit(GwStepExec(GwCur, instr))

\* the halfwords the flash may hold at the PC
GwAtPc ==
    IF gw_program \in GwPrograms /\ gw_regs[15][1] = 2048 /\ gw_regs[15][2] < 32
    THEN GwFlash(gw_program, gw_regs[15][2])
    ELSE {}

\* the halfwords at the PC that the branch c of _execute_thumb handles
GwFetched(c) == {instr \in GwAtPc : GwClass(instr) = c}

GwNop == \E instr \in GwFetched("NOP") : GwStep(instr)
GwBkpt == \E instr \in GwFetched("BKPT") : GwStep(instr)
GwMovsImm == \E instr \in GwFetched("MOVS_IMM") : GwStep(instr)
GwAddsImm == \E instr \in GwFetched("ADDS_IMM") : GwStep(instr)
GwSubsImm == \E instr \in GwFetched("SUBS_IMM") : GwStep(instr)
GwLdrLit == \E instr \in GwFetched("LDR_LIT") : GwStep(instr)
GwLdrStrImm == \E instr \in GwFetched("LDR_STR_IMM") : GwStep(instr)
GwSvc == \E instr \in GwFetched("SVC") : GwStep(instr)
GwBCond == \E instr \in GwFetched("B_COND") : GwStep(instr)
GwB == \E instr \in GwFetched("B") : GwStep(instr)
GwAddHigh == \E instr \in GwFetched("ADD_HIGH") : GwStep(instr)
GwPush == \E instr \in GwFetched("PUSH") : GwStep(instr)
GwPop == \E instr \in GwFetched("POP") : GwStep(instr)
GwUnsupported == \E instr \in GwFetched("UNSUPPORTED") : GwStep(instr)

\* CortexMEmulator.step on a halted emulator (lines 42-43): it returns
GwHaltedStep == gw_program \in GwPrograms /\ gw_halted /\ UNCHANGED vars

\* CortexMEmulator.reset on the flash of program prog
GwReset(prog) ==
    /\ gw_program = prog
    /\ gw_regs = [i \in 0..15 |->
                    CASE i = 13 -> GwRead32(prog, << >>, W(2048, 0))
                      [] i = 15 -> Even(GwRead32(prog, << >>, W(2048, 4)))
                      [] OTHER -> Zero]
    /\ gw_xpsr = Zero /\ gw_halted = FALSE /\ gw_mem = << >> /\ gw_raised = ""

\* the word at offset 4 of the flash: the test program has 0x08000008 there
ResetVector(img) == IF img = "test_branch" THEN W(2048, 9) ELSE FlashWord(4)

InitCore ==
    /\ regs = [InitState.regs EXCEPT ![15] = Even(ResetVector(image))]
    /\ msp = InitState.msp /\ psp = InitState.psp
    /\ psr = InitState.psr /\ primask = 0 /\ faultmask = 0 /\ basepri = 0
    /\ control = 0 /\ exceptions = InitState.exceptions
    /\ active_stack = << >> /\ ccr = InitState.ccr /\ shcsr = Zero
    /\ mem = InitState.mem /\ it_state = 0 /\ halted = FALSE
    /\ exclusive_active = FALSE /\ exclusive_addr = Zero /\ last_pc = Zero
    /\ phase = "boundary" /\ taken = 0 /\ nchecks = 0 /\ pre = InitState
    /\ consecutive_errors = 0 /\ running = TRUE /\ cycles = 0

\* the core CPU on one of the firmware images; the second emulator is not run
Init == image \in Images /\ InitCore /\ GwReset("none")

\* the second emulator on one of the test programs; the core CPU is not run
InitGw == image = "entry" /\ InitCore /\ \E prog \in GwPrograms : GwReset(prog)

----------------------------------------------------------------------------
(* The firmware images: the decoded instructions at each code address.     *)
(* Where an address lists several instructions, the images of the family   *)
(* differ in that place.                                                   *)

I(op, size, rd, rn, rm, rt, imm) == Instruction(op, size, rd, rn, rm, rt, imm, {})

MovsI(rd, imm) == I("MOVS", 2, rd, None, None, None, imm)
MovI(rd, rm) == I("MOV", 2, rd, None, rm, None, None)
BxI(rm) == I("BX", 2, None, None, rm, None, None)
LdrI(rt, rn, imm) == I("LDR", 4, None, rn, None, rt, imm)
StrI(rt, rn, imm) == I("STR", 4, None, rn, None, rt, imm)
MsrI(sysm, rn) == I("MSR", 4, None, rn, None, None, sysm)
LdrexI(rt, rn) == I("LDREX", 4, None, rn, None, rt, 0)
StrexI(rd, rt, rn) == I("STREX", 4, rd, rn, None, rt, 0)
PopI(list) == Instruction("POP", 2, None, None, None, None, None, list)
\* Decoder._decode_thumb16_shift_add_sub_mov_cmp, op 0..2: LSL, LSR, ASR
\* Rd, Rm, #imm5
DecodeShiftImm(op, imm5, rm, rd) ==
    [op |-> CASE op = 0 -> IF imm5 = 0 THEN "MOVS" ELSE "LSLS"
              [] op = 1 -> "LSRS"
              [] OTHER -> "ASRS",
     size |-> 2, rd |-> rd, rn |-> None, rm |-> rm, rt |-> None,
     imm |-> IF op = 0 THEN imm5 ELSE None, register_list |-> {}, rs |-> None,
     shift_n |-> IF op = 0 \/ imm5 # 0 THEN imm5 ELSE 32]

\* Decoder._decode_thumb16_data_proc, opcodes 2..4: LSLS, LSRS, ASRS Rdn, Rs
DecodeShiftReg(op, rs, rdn) ==
    [op |-> op, size |-> 2, rd |-> rdn, rn |-> rdn, rm |-> None, rt |-> None,
     imm |-> None, register_list |-> {}, rs |-> rs, shift_n |-> 0]

\* Decoder._decode_thumb16_uncond_branch on 0xE000 + imm11, imm11 < 1024
BI(imm11) == I("B", 2, None, None, None, None, 2 * imm11)
BkptI == I("BKPT", 2, None, None, None, None, 0)
PushI(list) == Instruction("PUSH", 2, None, None, None, None, None, list)
SvcI == I("SVC", 2, None, None, None, None, 0)
CpsidI(imm) == I("CPSID", 2, None, None, None, None, imm)
CpsieI(imm) == I("CPSIE", 2, None, None, None, None, imm)
WfiI == I("WFI", 2, None, None, None, None, None)
UndefinedI == I("UNDEFINED", 2, None, None, None, None, None)
UnknownI == I("UNKNOWN", 2, None, None, None, None, None)
NopI == I("NOP", 2, None, None, None, None, None)

StrexbI(rd, rt, rn) == I("STREXB", 4, rd, rn, None, rt, None)
StrexhI(rd, rt, rn) == I("STREXH", 4, rd, rn, None, rt, None)
ClrexI == I("CLREX", 4, None, None, None, None, None)
\* what the decoder returns for the CLREX encoding 0xF3BF 0x8F2F
\* (_decode_t32_misc_control: any op2 other than DSB, DMB, ISB is a NOP)
ClrexNopI == I("NOP", 4, None, None, None, None, None)
LdrbI(rt, rn, imm) == I("LDRB", 2, None, rn, None, rt, imm)
StrbI(rt, rn, imm) == I("STRB", 4, None, rn, None, rt, imm)
LdrhI(rt, rn, imm) == I("LDRH", 2, None, rn, None, rt, imm)
StrhI(rt, rn, imm) == I("STRH", 2, None, rn, None, rt, imm)
\* IT: first condition and mask (decoder.py lines 761-766)
ItI(firstcond, mask) ==
    [op |-> "IT", size |-> 2, rd |-> None, rn |-> None, rm |-> None, rt |-> None,
     imm |-> None, register_list |-> {}, firstcond |-> firstcond, mask |-> mask]

\* LDR Rt, [PC, #imm] at flash offset lo, reading word j of the literal pool
LdrLitI(rt, lo, j) ==
    I("LDR_LIT", 2, None, 15, None, rt, LitPool + 4 * j - ((lo + 4) \div 4) * 4)

\* stacking modes, exception return and the exclusive monitor
EntryImage(lo) ==
    CASE lo = 512 -> {LdrLitI(3, 512, 0)}                \* R3 = RamCell
      [] lo = 514 -> {LdrLitI(7, 514, 1)}                \* R7 = PspInit
      [] lo = 516 -> {LdrLitI(5, 516, 2)}                \* R5 = ScbBase
      [] lo = 518 -> {MovsI(1, 3)}
      [] lo = 520 -> {MsrI(9, 7), MsrI(9, 3)}            \* PSP
      [] lo = 524 -> {MsrI(20, 1), MsrI(20, 0)}          \* CONTROL
      [] lo = 528 -> {StrI(0, 5, 20), LdrexI(0, 3)}      \* CCR = 0
      [] lo = 532 -> {MovsI(0, 0), MovsI(0, 2)}
      [] lo = 534 -> {SvcI}
      [] lo = 536 -> {StrexI(0, 3, 3)}
      [] lo = 432 -> {MovsI(0, 2), MovsI(0, 0), UnknownI, BxI(14)} \* SVCall handler
      [] lo = 434 -> {BxI(14)}
      [] lo = 304 -> {MovsI(0, 0), BxI(14)}              \* HardFault handler
      [] lo = 306 -> {BxI(14)}
      [] OTHER -> {}

\* enables, priorities, masks and pending exceptions
PriorityImage(lo) ==
    CASE lo = 512 -> {LdrLitI(1, 512, 4)}                \* R1 = NMIPENDSET
      [] lo = 514 -> {LdrLitI(2, 514, 5)}                \* R2 = USGFAULTENA
      [] lo = 516 -> {MovsI(3, 3)}
      [] lo = 518 -> {LdrLitI(4, 518, 6)}                \* R4 = 0x00004080
      [] lo = 520 -> {LdrLitI(5, 520, 3)}                \* R5 = NvicBase
      [] lo = 522 -> {MovsI(6, 64)}
      [] lo = 524 -> {LdrLitI(7, 524, 2)}                \* R7 = ScbBase
      [] lo = 526 -> {StrI(3, 5, 0), StrI(0, 5, 0)}      \* ISER0
      [] lo = 530 -> {StrI(4, 5, 768), StrI(6, 5, 768)}  \* IPR0
      [] lo = 534 -> {StrI(2, 7, 36), StrI(0, 7, 36)}    \* SHCSR
      [] lo = 538 -> {CpsidI(1), CpsidI(2), NopI}
      [] lo = 540 -> {MsrI(17, 6), MsrI(17, 0)}          \* BASEPRI
      [] lo = 544 -> {StrI(3, 5, 256), StrI(1, 7, 4)}    \* ISPR0, ICSR
      [] lo = 548 -> {UndefinedI, UnknownI, SvcI, NopI}
      [] lo = 550 -> {CpsieI(1), CpsieI(2), NopI}
      [] lo = 552 -> {MsrI(17, 0)}
      [] lo = 556 -> {WfiI}
      [] lo = 558 -> {NopI}
      [] lo \in {256, 272, 288, 304, 352, 432} -> {BxI(14)}
      [] OTHER -> {}

\* every instruction that writes the PC
BranchImage(lo) ==
    CASE lo = 512 -> {LdrLitI(3, 512, 0)}                \* R3 = RamCell
      [] lo = 514 -> {LdrLitI(4, 514, 7)}                \* R4 = OddTarget
      [] lo = 516 -> {LdrLitI(5, 516, 8)}                \* R5 = EvenTarget
      [] lo = 518 -> {LdrexI(0, 3)}
      [] lo = 522 -> {StrexI(0, 4, 3), StrexI(0, 5, 3)}
      [] lo = 526 -> {LdrI(15, 3, 0), MovI(15, 4), MovI(15, 5), BxI(4), BxI(5),
                      SvcI, NopI}
      [] lo = 544 -> {NopI}
      [] lo = 560 -> {NopI}
      [] lo = 432 -> {PopI({15}), MovI(15, 14)}          \* SVCall handler
      [] OTHER -> {}

\* exclusive loads and stores on two RAM words A (R3) and B (R4)
ExclusiveImage(lo) ==
    CASE lo = 512 -> {LdrLitI(3, 512, 0)}                \* R3 = RamCell
      [] lo = 514 -> {LdrLitI(4, 514, 1)}                \* R4 = PspInit
      [] lo = 516 -> {MovsI(2, 5)}
      [] lo = 518 -> {LdrexI(0, 3), ClrexNopI}
      [] lo = 522 -> {StrexI(1, 4, 4), StrexbI(1, 4, 4), StrexhI(1, 4, 4),
                      StrexI(1, 4, 3), ClrexNopI}
      [] lo = 526 -> {ClrexI, ClrexNopI}
      [] lo = 530 -> {StrexI(1, 4, 3), StrexbI(1, 4, 3), StrexhI(1, 4, 3)}
      [] lo = 534 -> {NopI}
      [] OTHER -> {}

\* four IT blocks of 2, 4, 1 and 3 slots
ItImage(lo) ==
    CASE lo = 512 -> {MovsI(1, 0), MovsI(1, 1)}          \* Z = 1, Z = 0
      [] lo = 514 -> {ItI(0, 12)}                        \* ITE EQ
      [] lo = 516 -> {MovsI(0, 1)}
      [] lo = 518 -> {MovsI(0, 2)}
      [] lo = 520 -> {MovsI(5, 7)}
      [] lo = 522 -> {MovsI(1, 0), MovsI(1, 1)}          \* Z = 1, Z = 0
      [] lo = 524 -> {ItI(1, 9)}                         \* ITTEE NE
      [] lo = 526 -> {MovI(2, 5)}
      [] lo = 528 -> {MovI(3, 5)}
      [] lo = 530 -> {MovI(4, 5)}
      [] lo = 532 -> {MovI(6, 5)}
      [] lo = 534 -> {MovI(7, 5)}
      [] lo = 536 -> {ItI(0, 8)}                         \* IT EQ
      [] lo = 538 -> {MovI(8, 5)}
      [] lo = 540 -> {ItI(0, 6)}                         \* ITTE EQ
      [] lo = 542 -> {MovI(9, 5)}
      [] lo = 544 -> {MovI(10, 5)}
      [] lo = 546 -> {MovI(11, 5)}
      [] lo = 548 -> {MovI(12, 5)}
      [] OTHER -> {}

\* byte and word accesses to NVIC_IPR0 and to SCB CCR and SHCSR
ByteImage(lo) ==
    CASE lo = 512 -> {LdrLitI(5, 512, 9)}                \* R5 = IprBase
      [] lo = 514 -> {LdrLitI(7, 514, 2)}                \* R7 = ScbBase
      [] lo = 516 -> {LdrLitI(4, 516, 6)}                \* R4 = 0x00004080
      [] lo = 518 -> {MovsI(0, 32), MovsI(0, 255)}
      [] lo = 520 -> {StrI(4, 5, 0), StrbI(0, 5, 0), StrbI(0, 5, 1)}
      [] lo = 524 -> {LdrbI(1, 5, 0), LdrbI(1, 5, 1)}
      [] lo = 526 -> {StrbI(0, 7, 20), StrbI(0, 7, 21), StrbI(0, 7, 38)}
      [] lo = 530 -> {LdrbI(2, 7, 20), LdrbI(2, 7, 21)}
      [] lo = 532 -> {NopI}
      [] OTHER -> {}

\* a store of 0x01024080 and a load, of each width, at an address of each
\* window of the memory map
BusImage(lo) ==
    CASE lo = 512 -> {LdrLitI(4, 512, 16)}               \* R4 = 0x01024080
      [] lo = 514 -> {LdrLitI(5, 514, 0), LdrLitI(5, 514, 10), LdrLitI(5, 514, 11),
                      LdrLitI(5, 514, 12), LdrLitI(5, 514, 13), LdrLitI(5, 514, 14),
                      LdrLitI(5, 514, 15)}
      [] lo = 516 -> {StrI(4, 5, 0), StrbI(4, 5, 0), StrbI(4, 5, 1), StrhI(4, 5, 0),
                      StrhI(4, 5, 2)}
      [] lo = 518 -> {NopI}
      [] lo = 520 -> {LdrI(1, 5, 0), LdrhI(1, 5, 0), LdrhI(1, 5, 2), LdrbI(1, 5, 0),
                      LdrbI(1, 5, 1)}
      [] lo = 522 -> {NopI}
      [] lo = 524 -> {NopI}
      [] OTHER -> {}

\* a handler that writes CONTROL and then uses SP in every way; the thread
\* has set PSP and may have selected it
HandlerImage(lo) ==
    CASE lo = 512 -> {LdrLitI(7, 512, 1)}                \* R7 = PspInit
      [] lo = 514 -> {MovsI(1, 2)}
      [] lo = 516 -> {MsrI(9, 7)}                         \* PSP
      [] lo = 520 -> {MsrI(20, 1), MsrI(20, 0)}           \* CONTROL
      [] lo = 524 -> {SvcI}
      [] lo = 526 -> {NopI}
      [] lo = 432 -> {MsrI(20, 1), MsrI(20, 0)}           \* SVCall handler
      [] lo = 436 -> {MovI(2, 13)}
      [] lo = 438 -> {StrI(1, 13, 0)}
      [] lo = 442 -> {LdrI(3, 13, 4)}
      [] lo = 446 -> {PushI({4, 7})}
      [] lo = 448 -> {PopI({5, 6})}
      [] lo = 450 -> {MovI(13, 2)}
      [] lo = 452 -> {BxI(14)}
      [] OTHER -> {}

\* BASEPRI written, then BASEPRI_MAX written twice
BasepriImage(lo) ==
    CASE lo = 512 -> {MovsI(0, 0), MovsI(0, 64), MovsI(0, 128)}
      [] lo = 514 -> {MsrI(17, 0)}
      [] lo = 518 -> {MovsI(1, 0), MovsI(1, 32), MovsI(1, 64), MovsI(1, 192)}
      [] lo = 520 -> {MsrI(18, 1)}
      [] lo = 524 -> {MovsI(2, 0), MovsI(2, 16), MovsI(2, 64), MovsI(2, 255)}
      [] lo = 526 -> {MsrI(18, 2)}
      [] lo = 530 -> {NopI}
      [] OTHER -> {}

ShiftImms ==
    {DecodeShiftImm(op, imm5, 1, 0) : op \in 0..2, imm5 \in {0, 1, 4, 31}}

\* the three shifts of R1 by an immediate into R0, and of R1 by R2
ShiftImage(lo) ==
    CASE lo = 512 -> {LdrLitI(1, 512, 4), LdrLitI(1, 512, 16)}
      [] lo = 514 -> {MovsI(2, 0), MovsI(2, 4), MovsI(2, 32), MovsI(2, 40)}
      [] lo = 516 -> ShiftImms \cup {DecodeShiftReg(op, 2, 1) :
                                        op \in {"LSLS", "LSRS", "ASRS"}}
      [] lo = 518 -> {NopI}
      [] lo = 520 -> {NopI}
      [] OTHER -> {}

\* a run of instructions that raise, with one place where a step may succeed
ErrorsImage(lo) ==
    IF lo < 512 \/ lo > 1112 THEN {}
    ELSE IF lo = 712 THEN {DecodeShiftImm(1, 1, 1, 0), NopI}
    ELSE IF lo = 714 THEN {NopI}
    ELSE IF lo % 4 = 0
    THEN {DecodeShiftImm(0, 4, 1, 0), DecodeShiftImm(1, 1, 1, 0),
          DecodeShiftImm(2, 0, 1, 0)}
    ELSE {}

\* a supervisor call whose handler returns at once
BreakImage(lo) ==
    CASE lo = 512 -> {MovsI(0, 1)}
      [] lo = 514 -> {SvcI, NopI}
      [] lo = 516 -> {NopI}
      [] lo = 518 -> {NopI}
      [] lo = 432 -> {BxI(14)}                            \* SVCall handler
      [] OTHER -> {}

\* config.breakpoints: the first instruction of the SVCall handler and an
\* instruction of the thread
Breakpoints(img) == IF img = "break" THEN {W(2048, 432), W(2048, 518)} ELSE {}

\* tests/test_cpu.py test_branch: 01 E0 05 21 07 21 00 BE at 0x08000008, and
\* the NOPs that may follow
TestBranchImage(lo) ==
    CASE lo = 8 -> {BI(1)}
      [] lo = 10 -> {MovsI(1, 5)}
      [] lo = 12 -> {MovsI(1, 7)}
      [] lo = 14 -> {BkptI}
      [] lo = 16 -> {NopI}
      [] lo = 18 -> {NopI}
      [] OTHER -> {}

\* word stores of all-ones and of 0x00040000 to AIRCR, SHPR1-3, SHCSR, ISER0,
\* ICER0 and IPR0
FixedImage(lo) ==
    CASE lo = 512 -> {LdrLitI(7, 512, 2)}                \* R7 = ScbBase
      [] lo = 514 -> {LdrLitI(6, 514, 3)}                \* R6 = NvicBase
      [] lo = 516 -> {LdrLitI(0, 516, 17), LdrLitI(0, 516, 5)}
      [] lo \in {518, 522, 526} ->
            {StrI(0, 7, 12), StrI(0, 7, 24), StrI(0, 7, 28), StrI(0, 7, 32),
             StrI(0, 7, 36), StrI(0, 6, 0), StrI(0, 6, 128), StrI(0, 6, 768)}
      [] lo = 530 -> {NopI}
      [] OTHER -> {}

\* IRQ0 enabled, then an ITE EQ block, then BX to 0xFFFFFFFF (an EXC_RETURN
\* value) in Thread mode; the IRQ0 handler moves R3 to R6
ItIrqImage(lo) ==
    CASE lo = 512 -> {LdrLitI(5, 512, 3)}                \* R5 = NvicBase
      [] lo = 514 -> {MovsI(3, 1)}
      [] lo = 516 -> {StrI(3, 5, 0)}                     \* ISER0 = 1
      [] lo = 520 -> {MovsI(1, 0)}                       \* Z = 1
      [] lo = 522 -> {ItI(0, 12)}                        \* ITE EQ
      [] lo = 524 -> {MovI(2, 3)}
      [] lo = 526 -> {MovI(4, 3)}
      [] lo = 528 -> {NopI}
      [] lo = 530 -> {LdrLitI(0, 530, 17)}               \* R0 = 0xFFFFFFFF
      [] lo = 532 -> {BxI(0)}
      [] lo = 256 -> {MovI(6, 3)}                      \* IRQ0 handler
      [] lo \in {258, 260, 262} -> {BxI(14)}
      [] OTHER -> {}

\* UsageFault, IRQ0 and IRQ1 enabled at priority 0; they are pended with
\* PRIMASK set or clear, the IRQs are cleared again or not through ICPR0, and
\* PRIMASK is cleared
PendImage(lo) ==
    CASE lo = 512 -> {LdrLitI(7, 512, 2)}                \* R7 = ScbBase
      [] lo = 514 -> {LdrLitI(2, 514, 5)}                \* R2 = USGFAULTENA
      [] lo = 516 -> {StrI(2, 7, 36)}                    \* SHCSR
      [] lo = 520 -> {LdrLitI(5, 520, 3)}                \* R5 = NvicBase
      [] lo = 522 -> {MovsI(3, 3)}
      [] lo = 524 -> {StrI(3, 5, 0)}                     \* ISER0 = 3
      [] lo = 528 -> {CpsidI(1), NopI}
      [] lo = 530 -> {UndefinedI, NopI}
      [] lo = 532 -> {StrI(3, 5, 256)}                   \* ISPR0 = 3
      [] lo = 536 -> {StrI(3, 5, 384), StrI(0, 5, 384)}  \* ICPR0 = 3, = 0
      [] lo = 540 -> {CpsieI(1)}
      [] lo = 542 -> {NopI}
      [] lo = 544 -> {NopI}
      [] lo \in {256, 272, 352} -> {BxI(14)}             \* the three handlers
      [] OTHER -> {}

\* the decoded instructions the flash may hold at address pc
Code(img, pc) ==
    IF pc[1] # 2048 THEN {}
    ELSE CASE img = "entry" -> EntryImage(pc[2])
           [] img = "priority" -> PriorityImage(pc[2])
           [] img = "branch" -> BranchImage(pc[2])
           [] img = "exclusive" -> ExclusiveImage(pc[2])
           [] img = "it" -> ItImage(pc[2])
           [] img = "byte" -> ByteImage(pc[2])
           [] img = "bus" -> BusImage(pc[2])
           [] img = "handler" -> HandlerImage(pc[2])
           [] img = "basepri" -> BasepriImage(pc[2])
           [] img = "shift" -> ShiftImage(pc[2])
           [] img = "errors" -> ErrorsImage(pc[2])
           [] img = "break" -> BreakImage(pc[2])
           [] img = "test_branch" -> TestBranchImage(pc[2])
           [] img = "fixed" -> FixedImage(pc[2])
           [] img = "it_irq" -> ItIrqImage(pc[2])
           [] img = "pend" -> PendImage(pc[2])

\* code addresses where step() raises a host exception (a bus access of the
\* fetch or of the instruction leaves its memory region)
Raising(img, pc) == img = "branch" /\ pc = W(2048, 526)

----------------------------------------------------------------------------
(* Steps *)

\* step, lines 191-199: the wait of a halted core; the step returns at line
\* 199 when nothing is pending, else it wakes, enters and goes on to fetch
CheckDone(s, s1, p1, p2) ==
    /\ Commit(IF p2 # 0 THEN ExceptionEntry([s1 EXCEPT !.halted = FALSE], p2) ELSE s1)
    /\ phase' = IF s1.halted /\ p2 = 0 THEN "boundary" ELSE "fetch"
    /\ taken' = IF p1 # 0 THEN p1 ELSE p2
    /\ nchecks' = (IF ~s.halted THEN 1 ELSE 0) + (IF s1.halted THEN 1 ELSE 0)
    /\ pre' = IF p1 # 0 \/ p2 # 0 THEN s ELSE InitState
    /\ consecutive_errors' = IF s1.halted /\ p2 = 0 THEN 0 ELSE consecutive_errors
    /\ cycles' = IF s1.halted /\ p2 = 0 THEN 1 ELSE cycles
    /\ UNCHANGED <<image, running>>

\* step whose halted wait is over at the next step, pending or not
CheckHaltedWakes(s, s1, p1) == CheckDone(s, [s1 EXCEPT !.halted = FALSE], p1, 0)

CheckHalted(s, s1, p1) ==
    CheckDone(s, s1, p1, IF s1.halted THEN GetPendingException(s1) ELSE 0)

\* step without the exception entry of lines 188-189
CheckRunningNoEntry(s, p1) == CheckHalted(s, s, 0)

\* step, lines 186-189: the pending check of a running core, and the entry
CheckRunning(s, p1) ==
    CheckHalted(s, IF p1 # 0 THEN ExceptionEntry(s, p1) ELSE s, p1)

\* main.py, lines 400-406: the breakpoint test at the top of the step loop
Breakpoint ==
    /\ running /\ phase = "boundary"
    /\ regs[15] \in Breakpoints(image)
    /\ running' = FALSE
    /\ UNCHANGED <<regVars, excVars, mem, cpuVars, image, phase, taken, nchecks,
                   pre, consecutive_errors, cycles, gwVars>>

\* CortexM7.step, lines 186-199: the pending check, exception entry, and the
\* halted wait
StepCheck ==
    /\ running /\ phase = "boundary"
    /\ regs[15] \notin Breakpoints(image)
    /\ CheckRunning(Cur, IF ~halted THEN GetPendingException(Cur) ELSE 0)

\* CortexM7.step, lines 201-244, for the instruction found at the PC
Exec(inst) ==
    /\ running /\ phase = "fetch"
    /\ inst \in Code(image, regs[15])
    /\ Commit(StepExec(Cur, inst))
    /\ phase' = "boundary" /\ taken' = 0 /\ nchecks' = 0 /\ pre' = InitState
    /\ consecutive_errors' = 0
    /\ cycles' = StepCycles(Cur, inst)
    /\ UNCHANGED <<image, running>>

\* the instructions of the images, one action per instruction handler
Fetched(ops) == {inst \in Code(image, regs[15]) : inst.op \in ops}

DoMov == \E inst \in Fetched({"MOV", "MOVS"}) : Exec(inst)
DoBx == \E inst \in Fetched({"BX"}) : Exec(inst)
DoLdr == \E inst \in Fetched({"LDR"}) : Exec(inst)
DoLdrLit == \E inst \in Fetched({"LDR_LIT"}) : Exec(inst)
DoStr == \E inst \in Fetched({"STR"}) : Exec(inst)
DoPop == \E inst \in Fetched({"POP"}) : Exec(inst)
DoShift == \E inst \in Fetched({"LSLS", "LSRS", "ASRS"}) :
              ~ShiftRaises(inst) /\ Exec(inst)
DoB == \E inst \in Fetched({"B"}) : Exec(inst)
DoBkpt == \E inst \in Fetched({"BKPT"}) : Exec(inst)
DoPush == \E inst \in Fetched({"PUSH"}) : Exec(inst)
DoSvc == \E inst \in Fetched({"SVC"}) : Exec(inst)
DoCpsid == \E inst \in Fetched({"CPSID"}) : Exec(inst)
DoCpsie == \E inst \in Fetched({"CPSIE"}) : Exec(inst)
DoMsr == \E inst \in Fetched({"MSR"}) : Exec(inst)
DoLdrex == \E inst \in Fetched({"LDREX"}) : Exec(inst)
DoStrex == \E inst \in Fetched({"STREX"}) : Exec(inst)
DoStrexb == \E inst \in Fetched({"STREXB"}) : Exec(inst)
DoStrexh == \E inst \in Fetched({"STREXH"}) : Exec(inst)
DoClrex == \E inst \in Fetched({"CLREX"}) : Exec(inst)
DoLdrb == \E inst \in Fetched({"LDRB"}) : Exec(inst)
DoStrb == \E inst \in Fetched({"STRB"}) : Exec(inst)
DoLdrh == \E inst \in Fetched({"LDRH"}) : Exec(inst)
DoStrh == \E inst \in Fetched({"STRH"}) : Exec(inst)
DoIt == \E inst \in Fetched({"IT"}) : Exec(inst)
DoWfi == \E inst \in Fetched({"WFI"}) : Exec(inst)
DoUndefined == \E inst \in Fetched({"UNDEFINED"}) : Exec(inst)
DoUnknown == \E inst \in Fetched({"UNKNOWN"}) : Exec(inst)
DoNop == \E inst \in Fetched({"NOP"}) : Exec(inst)

\* a peripheral raises its interrupt between two steps
\* (peripherals/tim.py tick, peripherals/nvic.py set_irq_pending)
IrqRaise ==
    /\ running /\ phase = "boundary"
    /\ \E n \in {16, 17} :
          /\ ~exceptions[n].pending
          /\ exceptions' = [exceptions EXCEPT ![n].pending = TRUE]
    /\ UNCHANGED <<regVars, active_stack, ccr, shcsr, mem, cpuVars, image, phase,
                   taken, nchecks, pre, consecutive_errors, running, cycles, gwVars>>

max_consecutive_errors == 100

\* main.py, lines 408-430: step() raised a host exception, before or after it
\* advanced the PC by the instruction's size; the loop counts the error and
\* either stops or skips one halfword
HostSkip ==
    /\ running /\ phase = "fetch" /\ Raising(image, regs[15])
    /\ \E adv \in {0, 2, 4} :
          LET s == SetPc(Cur, WAdd(regs[15], adv))
          IN regs' = IF consecutive_errors + 1 >= max_consecutive_errors
                     THEN s.regs
                     ELSE SetPc(s, Even(WAdd(s.regs[15], 2))).regs
    /\ consecutive_errors' = consecutive_errors + 1
    /\ running' = (consecutive_errors + 1 < max_consecutive_errors)
    /\ cycles' = IF consecutive_errors + 1 >= max_consecutive_errors THEN cycles ELSE 1
    /\ phase' = "boundary" /\ taken' = 0 /\ nchecks' = 0 /\ pre' = InitState
    /\ UNCHANGED <<msp, psp, psr, primask, faultmask, basepri, control, excVars,
                   mem, cpuVars, image, gwVars>>

\* the except branch that stops one failure late
OnExceptionLate(s) ==
    /\ Commit(IF consecutive_errors + 1 > max_consecutive_errors THEN s
              ELSE SetPc(s, Even(WAdd(s.regs[15], 2))))
    /\ consecutive_errors' = consecutive_errors + 1
    /\ running' = (consecutive_errors + 1 <= max_consecutive_errors)
    /\ cycles' = 1
    /\ phase' = "boundary" /\ taken' = 0 /\ nchecks' = 0 /\ pre' = InitState
    /\ UNCHANGED image

\* main.py, lines 411-430: the except branch of the step loop, on the state s
\* the failed step() left
OnException(s) ==
    /\ Commit(IF consecutive_errors + 1 >= max_consecutive_errors THEN s
              ELSE SetPc(s, Even(WAdd(s.regs[15], 2))))
    /\ consecutive_errors' = consecutive_errors + 1
    /\ running' = (consecutive_errors + 1 < max_consecutive_errors)
    /\ cycles' = IF consecutive_errors + 1 >= max_consecutive_errors THEN cycles ELSE 1
    /\ phase' = "boundary" /\ taken' = 0 /\ nchecks' = 0 /\ pre' = InitState
    /\ UNCHANGED image

\* step() on an instruction whose handler raises: the PC is already past the
\* instruction (line 221) when _execute is called (line 232)
StepRaise(inst) ==
    /\ running /\ phase = "fetch"
    /\ inst \in Code(image, regs[15])
    /\ ShiftRaises(inst)
    /\ StepCond(Cur, inst) = 14 \/ CheckCondition(Cur, StepCond(Cur, inst))
    /\ OnException(StepAdvance(Cur, inst))

DoShiftImm == \E inst \in Fetched({"LSLS", "LSRS", "ASRS"}) : StepRaise(inst)

Next ==
    \/ StepCheck
    \/ DoMov \/ DoBx \/ DoLdr \/ DoLdrLit \/ DoStr \/ DoPop \/ DoSvc
    \/ DoCpsid \/ DoCpsie \/ DoMsr \/ DoLdrex \/ DoStrex \/ DoWfi
    \/ DoStrexb \/ DoStrexh \/ DoClrex \/ DoLdrb \/ DoStrb \/ DoIt
    \/ DoLdrh \/ DoStrh \/ DoPush \/ DoShift \/ DoShiftImm
    \/ DoB \/ DoBkpt
    \/ DoUndefined \/ DoUnknown \/ DoNop
    \/ IrqRaise \/ HostSkip \/ Breakpoint

Spec == Init /\ [][Next]_vars

NextGw ==
    \/ GwNop \/ GwBkpt \/ GwMovsImm \/ GwAddsImm \/ GwSubsImm \/ GwLdrLit
    \/ GwLdrStrImm \/ GwSvc \/ GwBCond \/ GwB \/ GwAddHigh \/ GwPush \/ GwPop
    \/ GwUnsupported \/ GwHaltedStep

SpecGw == InitGw /\ [][NextGw]_vars

----------------------------------------------------------------------------
(* Properties *)

\* the step has just entered exception `taken`; `pre` is the state before it
Entered == phase = "fetch" /\ taken # 0

\* the state before the entry was Thread mode on the process stack
PreUsesPsp == Ipsr(pre.psr) = 0 /\ (pre.control \div 2) % 2 = 1

\* C1: exception entry followed at once by the exception return through the
\* LR that entry wrote leaves R0-R12, SP, LR, PC and the whole xPSR (EPSR.T
\* included) as they were just before the entry.
C1_RoundTrip ==
    [][(Entered /\ Len(active_stack') < Len(active_stack))
        => /\ \A i \in 0..12 : regs'[i] = pre.regs[i]
           /\ msp' = pre.msp /\ psp' = pre.psp
           /\ regs'[14] = pre.regs[14]
           /\ regs'[15] = pre.regs[15]
           /\ psr' = pre.psr]_vars

\* C2: EPSR.T (xPSR bit 24) is 1 in every reachable state.
C2_ThumbAlways == WBit(psr, 24) = 1

\* C3: the PC never holds a value with bit 0 set, whatever wrote it (branch,
\* load, exception entry, exception return, the skip of the step loop).
C3_PcEven == regs[15][2] % 2 = 0

\* a write of the PC from a register holding an odd address has happened
C3_Witness ==
    /\ image = "branch" /\ phase = "boundary"
    /\ regs[4] = OddTarget /\ regs[15] = W(OddTarget[1], OddTarget[2] - 1)

\* pending and enabled, in state record s
PendingEnabled(s, n) == s.exceptions[n].pending /\ s.exceptions[n].enabled

\* pending, and enabled unless it is a system exception without an enable
\* bit (SVCall, DebugMonitor, PendSV, SysTick: numbers 7..15)
Eligible(s, n) ==
    s.exceptions[n].pending /\ (s.exceptions[n].enabled \/ (7 <= n /\ n <= 15))

\* C4 as stated: the exception taken is pending and enabled, of a priority
\* strictly below the execution priority, and no pending and enabled exception
\* has a lower priority number.
C4_TakenEnabled ==
    Entered =>
        /\ PendingEnabled(pre, taken)
        /\ pre.exceptions[taken].priority < GetExecutionPriority(pre)
        /\ \A m \in ExcNums :
              PendingEnabled(pre, m)
                => pre.exceptions[m].priority >= pre.exceptions[taken].priority

\* C4, amended: the exception taken is pending, and enabled unless it is one
\* of the system exceptions 7..15 that have no enable bit; its priority is
\* strictly below the execution priority; no such exception has a lower
\* priority number; an IRQ or a configurable fault that is pending but not
\* enabled is never taken.
C4_TakenEligible ==
    Entered =>
        /\ Eligible(pre, taken)
        /\ pre.exceptions[taken].priority < GetExecutionPriority(pre)
        /\ \A m \in ExcNums :
              Eligible(pre, m)
                => pre.exceptions[m].priority >= pre.exceptions[taken].priority
        /\ (taken >= 16 \/ taken \in {4, 5, 6}) => pre.exceptions[taken].enabled

\* IRQ1 is taken while IRQ0, of a lower priority, is pending and enabled too
C4_Witness ==
    /\ Entered /\ taken = 17
    /\ PendingEnabled(pre, 16)
    /\ pre.exceptions[16].priority > pre.exceptions[17].priority

\* the execution priority as the claim states it
StatedPriority ==
    SetMin({256}
           \cup {exceptions[n].priority : n \in {m \in ExcNums : exceptions[m].active}}
           \cup (IF primask = 1 THEN {0} ELSE {})
           \cup (IF faultmask = 1 THEN {-1} ELSE {})
           \cup (IF basepri # 0 THEN {basepri} ELSE {}))

\* C5: the execution priority is the minimum of the priorities of the active
\* exceptions (256 if none), 0 under PRIMASK, -1 under FAULTMASK and BASEPRI
\* when it is not 0; so nothing of priority >= 0 is entered under PRIMASK and
\* nothing of priority >= BASEPRI is entered under a BASEPRI that is not 0.
C5_ExecutionPriority ==
    /\ GetExecutionPriority(Cur) = StatedPriority
    /\ Entered =>
          /\ pre.primask = 1 => pre.exceptions[taken].priority < 0
          /\ pre.basepri # 0 => pre.exceptions[taken].priority < pre.basepri

\* a step found an enabled IRQ pending under PRIMASK and entered nothing
C5_Witness ==
    /\ phase = "fetch" /\ taken = 0 /\ primask = 1 /\ basepri # 0
    /\ \E n \in {16, 17} : PendingEnabled(Cur, n)

PreSp == IF PreUsesPsp THEN pre.psp ELSE pre.msp
PostSp == IF PreUsesPsp THEN psp ELSE msp
Realigned == WBit(pre.ccr, 9) = 1 /\ WBit(PreSp, 2) = 1

\* C7: entry lowers the stacking SP (PSP in Thread mode with SPSEL = 1, else
\* MSP) by 32, and by 4 more exactly when CCR.STKALIGN is set and the SP had
\* bit 2 set; bit 9 of the stacked xPSR tells that adjustment; the other
\* stack pointer is unchanged.
C7_Stacking ==
    Entered =>
        /\ PostSp = WAdd(PreSp, IF Realigned THEN -36 ELSE -32)
        /\ WAdd(PostSp, 28) \in DOMAIN mem
        /\ WBit(mem[WAdd(PostSp, 28)], 9) = (IF Realigned THEN 1 ELSE 0)
        /\ IF PreUsesPsp THEN msp = pre.msp ELSE psp = pre.psp

\* an entry from Thread mode on a PSP with bit 2 set, STKALIGN set
C7_Witness == Entered /\ PreUsesPsp /\ Realigned

\* C8: entry sets LR to 0xFFFFFFF1 from Handler mode, 0xFFFFFFF9 from Thread
\* mode on MSP, 0xFFFFFFFD from Thread mode on PSP; bit 2 of the value names
\* the stack the frame was pushed on.
C8_ExcReturn ==
    Entered =>
        /\ regs[14] = (IF Ipsr(pre.psr) # 0 THEN W(65535, 65521)
                       ELSE IF (pre.control \div 2) % 2 = 1 THEN W(65535, 65533)
                       ELSE W(65535, 65529))
        /\ IF WBit(regs[14], 2) = 1
           THEN psp # pre.psp /\ msp = pre.msp
           ELSE msp # pre.msp /\ psp = pre.psp

\* an entry from Handler mode while CONTROL.SPSEL is set
C8_Witness == Entered /\ Ipsr(pre.psr) # 0 /\ (pre.control \div 2) % 2 = 1

\* C9: IPSR is the number on top of the active stack, or 0 when the stack is
\* empty, after every entry and every return; entry for N leaves N on top of
\* the stack, active and not pending.
C9_Ipsr ==
    /\ Ipsr(psr) = (IF active_stack = << >> THEN 0
                    ELSE active_stack[Len(active_stack)])
    /\ Entered =>
          /\ active_stack = Append(pre.active_stack, taken)
          /\ exceptions[taken].active /\ ~exceptions[taken].pending

\* the SVCall handler runs again after a nested HardFault has returned
C9_Witness ==
    /\ phase = "boundary" /\ active_stack = <<11>>
    /\ WAdd(msp, -32) \in DOMAIN mem

StoreExclusiveAddr(inst) ==
    IF inst.op = "STREX" THEN ExclusiveAddr(Cur, inst) ELSE GetReg(Cur, inst.rn)

ItSlots ==
    {<<516, 0, FALSE, 0, 1>>, <<518, 0, TRUE, 0, 2>>,
     <<526, 1, FALSE, 2, 7>>, <<528, 1, FALSE, 3, 7>>, <<530, 1, TRUE, 4, 7>>,
     <<532, 1, TRUE, 6, 7>>,
     <<538, 0, FALSE, 8, 7>>,
     <<542, 0, FALSE, 9, 7>>, <<544, 0, FALSE, 10, 7>>, <<546, 0, TRUE, 11, 7>>}

\* C13: an instruction in a then slot of an IT block commits iff the first
\* condition holds on the flags current when it is reached, one in an else
\* slot iff it does not hold.
C13_ItPredication ==
    [][\A sl \in ItSlots :
          (/\ image = "it" /\ phase = "fetch" /\ phase' = "boundary"
           /\ regs[15] = W(2048, sl[1]))
             => ((regs'[sl[4]] = W(0, sl[5]))
                    <=> (CheckCondition(Cur, sl[2]) # sl[3]))]_vars

\* C14: the IT state is non-zero for exactly the k instructions that follow an
\* IT instruction of k slots, and 0 for the instruction after them.
C14_ItExtent ==
    (image = "it" /\ phase = "fetch")
        => (InItBlock(Cur) <=> \E sl \in ItSlots : regs[15] = W(2048, sl[1]))

\* C15: a step of a halted CPU leaves the halted state when an exception is
\* pending and enabled, also under PRIMASK or FAULTMASK (no BASEPRI, no active
\* exception).
C15_WfiWakes ==
    [][(/\ StepCheck /\ halted /\ basepri = 0 /\ active_stack = << >>
        /\ \E n \in ExcNums : PendingEnabled(Cur, n))
          => ~halted']_vars

\* C16: a step of a halted CPU that takes no exception fetches and executes
\* nothing, changes no register, memory word or exception state, and accounts
\* one cycle.
C16_HaltedStep ==
    [][(StepCheck /\ halted /\ taken' = 0)
          => /\ phase' = "boundary" /\ cycles' = 1
             /\ UNCHANGED <<regVars, excVars, mem, cpuVars>>]_vars

\* a halted step has returned while a disabled IRQ is pending
C16_Witness ==
    /\ halted /\ phase = "boundary" /\ nchecks = 1 /\ cycles = 1
    /\ \E n \in {16, 17} : exceptions[n].pending /\ ~exceptions[n].enabled

\* the exception that has to be entered for a pending UsageFault
UsageTarget(s) == IF s.exceptions[6].enabled THEN 6 ELSE 3

\* at the fetch of a step, a UsageFault that was pending at the pending check
\* has been entered, or HardFault when UsageFault is not enabled, unless the
\* execution priority did not allow it
UsageFaultSurfaces ==
    phase = "fetch" =>
        /\ (taken = 0 /\ exceptions[6].pending)
              => GetExecutionPriority(Cur) <= exceptions[UsageTarget(Cur)].priority
        /\ (taken # 0 /\ pre.exceptions[6].pending)
              => \/ taken = UsageTarget(pre)
                 \/ pre.exceptions[taken].priority < pre.exceptions[UsageTarget(pre)].priority
                 \/ GetExecutionPriority(pre) <= pre.exceptions[UsageTarget(pre)].priority

\* C17: UNDEFINED sets UsageFault pending; its handler is entered if UsageFault
\* is enabled, the HardFault handler if it is not; the fault is not left
\* pending.
C17_UndefinedEscalates ==
    [][/\ \A inst \in Fetched({"UNDEFINED"}) : Exec(inst) => exceptions'[6].pending
       /\ UsageFaultSurfaces']_vars

\* at the fetch of a step, a HardFault that was pending at the pending check
\* has been entered unless the execution priority was -1 or higher
HardFaultSurfaces ==
    phase = "fetch" =>
        /\ (taken = 0 /\ exceptions[3].pending) => GetExecutionPriority(Cur) <= -1
        /\ (taken # 0 /\ pre.exceptions[3].pending)
              => (taken = 3 \/ GetExecutionPriority(pre) <= -1)

\* C18: UNKNOWN sets HardFault pending and raises no host exception (the step
\* returns and the loop goes on); the HardFault handler is entered at the next
\* instruction boundary unless the execution priority is -1 or higher.
C18_UnknownHardFault ==
    [][/\ \A inst \in Fetched({"UNKNOWN"}) :
             Exec(inst) => /\ exceptions'[3].pending
                           /\ running' /\ consecutive_errors' = 0
       /\ HardFaultSurfaces']_vars

\* HardFault is entered by the step after the UNKNOWN of the thread code
C18_Witness ==
    /\ Entered /\ taken = 3 /\ image = "priority"
    /\ pre.regs[15] = W(2048, 550) /\ pre.active_stack = << >>

\* the priority byte a store to NVIC_IPR0 writes for IRQ i (-1: none)
IprWritten(inst, i) ==
    IF inst.op = "STR" /\ LoadStoreAddr(Cur, inst) = IprBase
    THEN WByte(GetReg(Cur, inst.rt), i)
    ELSE IF inst.op = "STRB" /\ LoadStoreAddr(Cur, inst) = WAdd(IprBase, i)
    THEN GetReg(Cur, inst.rt)[2] % 256
    ELSE -1

\* C19: after p is written to the priority byte of IRQ i in NVIC_IPR, by a
\* byte write or as a lane of a word write, a read of that byte gives
\* p & 0xF0.
C19_IprRoundTrip ==
    [][\A inst \in Fetched({"STR", "STRB"}) : \A i \in {0, 1} :
          (Exec(inst) /\ IprWritten(inst, i) # -1)
             => BusRead8(Cur', WAdd(IprBase, i)) = (IprWritten(inst, i) \div 16) * 16]_vars

\* the bytes of CCR and SHCSR, with those of IPR0, and a byte as a word read
\* returns it
ScbBytes == (60692 .. 60695) \cup (60708 .. 60711)
RegBytes == (58368 .. 58371) \cup ScbBytes
RegByte(s, lo) == WByte(NvicRead(s, (lo \div 4) * 4), lo % 4)

\* C20: a byte write to CCR or SHCSR, 32-bit registers of the system control
\* space, changes only the addressed byte: the other bytes of the register
\* and the other registers read back unchanged.
C20_ByteLanes ==
    [][\A inst \in Fetched({"STRB"}) :
          (/\ Exec(inst)
           /\ LoadStoreAddr(Cur, inst)[1] = 57344
           /\ LoadStoreAddr(Cur, inst)[2] \in ScbBytes)
             => \A lo \in RegBytes \ {LoadStoreAddr(Cur, inst)[2]} :
                   RegByte(Cur', lo) = RegByte(Cur, lo)]_vars

\* the value a store instruction writes, cut to its width, and the value a
\* read of that width at address a returns in state s
StoreValue(inst) ==
    IF inst.op = "STR" THEN GetReg(Cur, inst.rt)
    ELSE IF inst.op = "STRH" THEN W(0, GetReg(Cur, inst.rt)[2])
    ELSE W(0, GetReg(Cur, inst.rt)[2] % 256)
ReadBack(s, inst, a) ==
    IF inst.op = "STR" THEN MemRead32(s, a)
    ELSE IF inst.op = "STRH" THEN W(0, MemRead16(s, a))
    ELSE W(0, MemRead8(s, a))
StoreOps == {"STR", "STRH", "STRB"}

\* C21: a write of any width to an ITCM address followed by a read of that
\* width at the address returns the value written.
C21_ItcmReadAfterWrite ==
    [][\A inst \in Fetched(StoreOps) :
          (Exec(inst) /\ InItcm(LoadStoreAddr(Cur, inst)))
             => ReadBack(Cur', inst, LoadStoreAddr(Cur, inst)) = StoreValue(inst)]_vars

\* the bytes a store instruction writes: 4, 2 or 1
StoreBytes(inst) == IF inst.op = "STR" THEN 4 ELSE IF inst.op = "STRH" THEN 2 ELSE 1

\* C22: a write of width W at a RAM address A, aligned or not, followed by a
\* read of width W at A returns the value written, and a byte read at A + k
\* returns the k-th little-endian byte of that value.
C22_RamRoundTrip ==
    [][\A inst \in Fetched(StoreOps) :
          (Exec(inst) /\ InRam(LoadStoreAddr(Cur, inst)))
             => /\ ReadBack(Cur', inst, LoadStoreAddr(Cur, inst)) = StoreValue(inst)
                /\ \A k \in 0 .. StoreBytes(inst) - 1 :
                      MemRead8(Cur', WAdd(LoadStoreAddr(Cur, inst), k))
                         = WByte(StoreValue(inst), k)]_vars

\* addresses read before and after a write: the cells of the images, the
\* vector table through the boot alias, and the word behind the alias of the
\* written Flash cell
ProbeAddrs ==
    {RamCell, ItcmCell, FlashCell, ExtFlashCell, StubCell, UnknownCell,
     W(0, 0), W(0, 4), W(0, 1024), W(2048, 0)}

\* C23: a write of any width to the Flash window or the external flash window
\* raises no error and changes nothing: every address reads as before, also
\* through the boot alias.
C23_FlashWriteIgnored ==
    [][\A inst \in Fetched(StoreOps) :
          (/\ running /\ phase = "fetch" /\ phase' = "boundary"
           /\ inst \in Code(image, regs[15])
           /\ InFlash(LoadStoreAddr(Cur, inst)) \/ InExtFlash(LoadStoreAddr(Cur, inst)))
             => /\ consecutive_errors' = 0 /\ running'
                /\ \A a \in ProbeAddrs : MemRead32(Cur', a) = MemRead32(Cur, a)
                /\ mem' = mem /\ UNCHANGED excVars]_vars

\* a word store to the Flash cell has been executed
C23_Witness ==
    /\ image = "bus" /\ phase = "boundary" /\ regs[15] = W(2048, 520)
    /\ regs[5] = FlashCell /\ regs[4] = W(258, 16512) /\ consecutive_errors = 0

\* the address is claimed by no memory, by no register of the system PPB and
\* by no registered peripheral
Unclaimed(a) ==
    /\ ~InItcm(a) /\ ~InFlash(a) /\ ~InRam(a) /\ ~InExtFlash(a)
    /\ ~(a[1] = 57344 /\ a[2] >= 57344) /\ ~FindPeripheral(a)

\* C24: at an address claimed by no memory, PPB register or registered
\* peripheral, a read returns the last value written there.
C24_StubRetains ==
    [][\A inst \in Fetched({"STR"}) :
          (Exec(inst) /\ Unclaimed(LoadStoreAddr(Cur, inst)))
             => MemRead32(Cur', LoadStoreAddr(Cur, inst)) = GetReg(Cur, inst.rt)]_vars

\* what an access through the SP alias has to do when SP is MSP: the value
\* read, the word stored or loaded at the MSP-relative address, the new MSP
UsesMsp(inst) ==
    CASE inst.op = "MOV" /\ inst.rm = 13 -> regs'[inst.rd] = msp
      [] inst.op = "MOV" /\ inst.rd = 13 -> msp' = regs[inst.rm]
      [] inst.op = "STR" /\ inst.rn = 13 ->
            MemRead32(Cur', WAdd(msp, inst.imm)) = regs[inst.rt] /\ msp' = msp
      [] inst.op = "LDR" /\ inst.rn = 13 ->
            regs'[inst.rt] = MemRead32(Cur, WAdd(msp, inst.imm)) /\ msp' = msp
      [] inst.op = "PUSH" ->
            /\ msp' = WAdd(msp, -4 * Cardinality(inst.register_list))
            /\ MemRead32(Cur', msp') = regs[SetMin(inst.register_list)]
      [] inst.op = "POP" /\ 15 \notin inst.register_list ->
            /\ msp' = WAdd(msp, 4 * Cardinality(inst.register_list))
            /\ regs'[SetMin(inst.register_list)] = MemRead32(Cur, msp)
      [] OTHER -> TRUE

\* the instruction reads or writes R13 (a POP of the PC is an exception
\* return in these images and restores the stack pointer of the frame)
SpAccess(inst) ==
    \/ inst.op = "MOV" /\ (inst.rm = 13 \/ inst.rd = 13)
    \/ inst.op \in {"STR", "LDR"} /\ inst.rn = 13
    \/ inst.op = "PUSH"
    \/ inst.op = "POP" /\ 15 \notin inst.register_list

\* C25: in Handler mode (IPSR # 0) every access through the SP alias uses MSP
\* and leaves PSP unchanged, whatever CONTROL.SPSEL is, also after CONTROL is
\* written inside the handler.
C25_HandlerUsesMsp ==
    [][\A inst \in Code(image, regs[15]) :
          (Ipsr(psr) # 0 /\ SpAccess(inst) /\ Exec(inst))
             => psp' = psp /\ UsesMsp(inst)]_vars

\* a handler that selected PSP in CONTROL has written SP
C25_Witness ==
    /\ image = "handler" /\ Ipsr(psr) # 0 /\ Spsel(Cur) /\ phase = "boundary"
    /\ regs[15] = W(2048, 452) /\ msp # psp /\ msp = regs[2]

\* C26: an MSR write to BASEPRI_MAX changes BASEPRI only if the value written
\* is nonzero and BASEPRI is 0 or the value is lower than BASEPRI, and then
\* BASEPRI is that value; a nonzero BASEPRI is never raised nor cleared by it.
C26_BasepriMax ==
    [][\A inst \in Fetched({"MSR"}) :
          (Exec(inst) /\ inst.imm = 18)
             => /\ basepri' # basepri
                      => /\ regs[inst.rn][2] % 256 # 0
                         /\ (basepri = 0 \/ regs[inst.rn][2] % 256 < basepri)
                         /\ basepri' = regs[inst.rn][2] % 256
                /\ basepri # 0 => (basepri' # 0 /\ basepri' <= basepri)]_vars

\* BASEPRI 64, BASEPRI_MAX 32 accepted, BASEPRI_MAX 64 refused
C26_Witness ==
    /\ image = "basepri" /\ phase = "boundary" /\ regs[15] = W(2048, 530)
    /\ regs[0] = W(0, 64) /\ regs[1] = W(0, 32) /\ regs[2] = W(0, 64)
    /\ basepri = 32

\* a step() call that raised a host exception
StepRaised == HostSkip \/ DoShiftImm

\* a step() call that returned after executing an instruction
StepReturned == \E inst \in Code(image, regs[15]) : ~ShiftRaises(inst) /\ Exec(inst)

\* C27: the step loop stops the run exactly when 100 consecutive step() calls
\* have raised: every raise adds one to the count and stops the run iff the
\* count reaches 100, every successful step resets the count to zero and keeps
\* the run going, and the policy never stops a run at a lower count.
C27_StopsAtHundred ==
    [][/\ StepRaised
            => /\ consecutive_errors' = consecutive_errors + 1
               /\ running' <=> (consecutive_errors' < 100)
       /\ StepReturned => (consecutive_errors' = 0 /\ running')
       /\ (running /\ ~running' /\ regs[15] \notin Breakpoints(image))
            => (StepRaised /\ consecutive_errors' = 100)]_vars

\* 50 failures, one successful step, then 100 failures in a row: the run has
\* stopped on the 100th, at 0x08000458 + 2
C27_Witness ==
    /\ image = "errors" /\ ~running /\ consecutive_errors = 100
    /\ regs[15] = W(2048, 1114)

\* C28: when step() raises on the instruction at address A and the run goes
\* on, the next step fetches from A + 2.
C28_SkipsOneHalfword ==
    [][(StepRaised /\ running') => regs'[15] = WAdd(regs[15], 2)]_vars

\* C29: an instruction at an address of the breakpoint set is never executed:
\* the step loop exits before step() fetches it.
C29_BreakpointHonoured == phase = "fetch" => regs[15] \notin Breakpoints(image)

\* C30: a 16-bit LSLS / LSRS / ASRS Rd, Rm, #imm5 completes without a host
\* exception and leaves in Rd the value of Rm shifted by imm5, where imm5 = 0
\* is no shift for LSL and a shift by 32 for LSR and ASR.
C30_ShiftImmediate ==
    [][\A inst \in ShiftImms \cap Code(image, regs[15]) :
          (IF ShiftRaises(inst) THEN StepRaise(inst) ELSE Exec(inst))
             => /\ consecutive_errors' = 0
                /\ regs'[inst.rd] =
                      ShiftResult(IF inst.op = "MOVS" THEN "LSLS" ELSE inst.op,
                                  regs[inst.rm], inst.shift_n)]_vars

\* C31: the program B; MOVS R1,#5; MOVS R1,#7; BKPT placed at 0x08000008 and
\* run from reset reaches its BKPT with R1 = 7 (core CPU).
C31_BranchSkipsOne ==
    (image = "test_branch" /\ phase = "fetch" /\ regs[15] = W(2048, 14))
        => regs[1] = W(0, 7)

\* C32: BKPT is a debug stop: no step that follows the execution of a BKPT
\* fetches an instruction (core CPU).
C32_BkptStops ==
    (phase = "fetch" /\ taken = 0)
        => ~(\E inst \in Code(image, last_pc) : inst.op = "BKPT")

\* C33: in CortexMEmulator, CMP Rn,#imm8 (0x2800 + Rn * 256 + imm8) raises no
\* error, leaves Rn unchanged and sets the flags from Rn - imm8.
C33_CmpImmediate ==
    [][\A instr \in {i \in GwAtPc : i \div 2048 = 5} :
          GwStep(instr)
             => /\ gw_raised' = ""
                /\ gw_regs'[(instr \div 256) % 8] = gw_regs[(instr \div 256) % 8]
                /\ gw_xpsr' = GwSetFlagsSub(gw_xpsr, gw_regs[(instr \div 256) % 8],
                                            WInt(instr % 256))]_vars

\* C34: in CortexMEmulator, STMIA Rn!,{regs} (0xC000...) and LDMIA Rn!,{regs}
\* (0xC800...) raise no error and advance Rn by 4 per listed register.
C34_LdmStm ==
    [][\A instr \in {i \in GwAtPc : i \div 4096 = 12} :
          GwStep(instr)
             => /\ gw_raised' = ""
                /\ gw_regs'[(instr \div 256) % 8] =
                      WAdd(gw_regs[(instr \div 256) % 8],
                           4 * Cardinality(GwList(instr % 256)))]_vars

\* C35: in CortexMEmulator, MOV Rd,Rm (0x46xx) sets Rd to the value of Rm
\* whatever Rd held, and BX Rm (0x47xx) branches to Rm with bit 0 cleared.
C35_SpecialData ==
    [][/\ \A instr \in {i \in GwAtPc : i \div 256 = 70} :
             GwStep(instr)
                => gw_regs'[(instr % 8) + 8 * BitAt(instr, 7)] =
                      gw_regs[(instr \div 8) % 16]
       /\ \A instr \in {i \in GwAtPc : i \div 128 = 142} :
             GwStep(instr) => gw_regs'[15] = Even(gw_regs[(instr \div 8) % 16])]_vars

\* C36: Reset, NMI and HardFault are enabled and have the priorities -3, -2
\* and -1 in every reachable state.
C36_FixedExceptions ==
    \A n \in {1, 2, 3} :
        exceptions[n].enabled /\ exceptions[n].priority = n - 4

\* all-ones has been stored to SHPR1, SHPR2 and IPR0
C36_Witness ==
    /\ image = "fixed" /\ phase = "boundary" /\ regs[15] = W(2048, 530)
    /\ exceptions[6].priority = 240 /\ exceptions[11].priority = 240
    /\ exceptions[16].priority = 240

\* C37: after an exception return to Thread mode the live stack pointer is the
\* one EXC_RETURN names, PSP for 0xFFFFFFFD and MSP for 0xFFFFFFF9, whatever
\* CONTROL.SPSEL was before the return.
C37_ReturnStack ==
    [][\A inst \in Fetched({"BX"}) :
          (IsExcReturn(GetReg(Cur, inst.rm)) /\ Exec(inst) /\ Ipsr(psr') = 0)
             => Sp(StepExec(Cur, inst))
                   = ReturnSp(StepExec(Cur, inst), GetReg(Cur, inst.rm))]_vars

\* C38: when an exception is taken inside an IT block, the handler's
\* instructions are not predicated by the interrupted block (the IRQ0 handler's
\* first instruction, outside any IT block of its own, always executes), and
\* after the return the rest of the block is predicated as without the
\* exception (of the ITE EQ block entered with Z = 1 the first instruction has
\* executed and the second has not when the thread is past the block).
C38_ItAcrossException ==
    image = "it_irq" =>
        /\ (phase = "boundary" /\ Ipsr(psr) = 16 /\ regs[15] = W(2048, 258))
              => regs[6] = W(0, 1)
        /\ (phase = "boundary" /\ Ipsr(psr) = 0 /\ regs[15] = W(2048, 528))
              => (regs[2] = W(0, 1) /\ regs[4] = Zero)

\* the exception numbers on the active stack
OnActiveStack == {active_stack[i] : i \in 1..Len(active_stack)}

\* C39: an exception's active flag is set iff its number is on the active
\* stack, no number is on the active stack twice, and the exception a step
\* enters was not active before the entry.
C39_ActiveStack ==
    /\ \A n \in ExcNums : exceptions[n].active <=> n \in OnActiveStack
    /\ Cardinality(OnActiveStack) = Len(active_stack)
    /\ (phase = "fetch" /\ taken # 0) => ~pre.exceptions[taken].active

\* IRQ0 has been handled and has returned, and the thread has then performed
\* an exception return (BX to 0xFFFFFFFF, unstacking 32 bytes from PSP = 0) with the
\* active stack empty
C39_Witness ==
    /\ image = "it_irq" /\ phase = "boundary" /\ psp = W(0, 32)
    /\ regs[6] = W(0, 1) /\ active_stack = <<>> /\ Ipsr(psr) = 0

\* the step is a word store to an NVIC_ICPR register that names exception n
ClearedBySoftware(n) ==
    \E inst \in Fetched({"STR"}) :
        /\ LoadStoreAddr(Cur, inst)[1] = 57344
        /\ 57984 <= LoadStoreAddr(Cur, inst)[2] /\ LoadStoreAddr(Cur, inst)[2] < 58004
        /\ n \in IrqsNamed((LoadStoreAddr(Cur, inst)[2] - 57984) \div 4,
                           GetReg(Cur, inst.rt))
        /\ Exec(inst)

\* the step is a step() call that enters exception n
EnteredNow(n) == phase = "boundary" /\ phase' = "fetch" /\ taken' = n

\* C40: a pending, enabled exception stays pending until the step that enters
\* it or the store that clears it, and no Thread-mode instruction is fetched
\* while a pending, enabled exception has a priority above the execution
\* priority (so a blocked exception is entered at the first step after the
\* handler returned or the mask was lifted).
C40_PendingKept ==
    [][/\ \A n \in ExcNums :
             (PendingEnabled(Cur, n) /\ ~exceptions'[n].pending)
                => (EnteredNow(n) \/ ClearedBySoftware(n))
       /\ (phase' = "fetch" /\ Ipsr(psr') = 0)
             => \A n \in ExcNums :
                   PendingEnabled(Cur', n)
                      => exceptions'[n].priority >= GetExecutionPriority(Cur')]_vars

\* UsageFault, pended by the undefined instruction while PRIMASK was set, is
\* entered at the first step after CPSIE
C40_Witness ==
    /\ image = "pend" /\ phase = "fetch" /\ taken = 6
    /\ pre.regs[15] = W(2048, 542) /\ Ipsr(pre.psr) = 0

====
